---------------------------- MODULE Spec2Model ----------------------------
(***************************************************************************)
(* A model of the MLBlocks pipeline engine: MLBlock objects wrapping       *)
(* annotated primitives, the MLPipeline that names them, threads the       *)
(* Context through them in fit and predict, supports partial execution     *)
(* (start_, output_), and exposes hyperparameters and the dict             *)
(* representation.                                                          *)
(*                                                                         *)
(* Strings of the program are modelled as sequences of tokens, so that     *)
(* building a block name ("{primitive}#{n}") and splitting an output       *)
(* specification on its last dot are real operations.  Dicts are           *)
(* functions.  MLBlock objects live in a heap and a pipeline holds         *)
(* references to them, so that sharing between pipelines is expressible.   *)
(***************************************************************************)
EXTENDS Integers, Sequences, FiniteSets, TLC

VARIABLES
    heap,     \* object id -> MLBlock object
    pipes,    \* pipeline handle -> MLPipeline object
    last      \* record of the last fit / predict / set_hyperparameters call

vars == <<heap, pipes, last>>

(***************************************************************************)
(* Bounds of the model.                                                    *)
(***************************************************************************)
MaxBlocks == 2      \* longest primitive list a pipeline is built from
MaxVal == 2         \* data values are 0 .. MaxVal-1
MaxList == 2        \* longest output_ list
MaxCopyBlocks == 2  \* longest primitive list in the template-copy scenario
MaxNamed == 4       \* longest primitive list whose blocks are named
MaxRange == 3       \* longest primitive list run from a start_ to an output_

Values == 0 .. (MaxVal - 1)

None == "None"

EmptyDict == [k \in {} |-> None]

Range(f) == {f[k] : k \in DOMAIN f}

(***************************************************************************)
(* dict.update(): the entries of new override those of old.                *)
(***************************************************************************)
Update(old, new) ==
    [k \in (DOMAIN old) \cup (DOMAIN new) |->
        IF k \in DOMAIN new THEN new[k] ELSE old[k]]

(***************************************************************************)
(* dict.get(key, default)                                                  *)
(***************************************************************************)
Get(d, k, default) == IF k \in DOMAIN d THEN d[k] ELSE default

(***************************************************************************)
(* The primitives of the model and their JSON annotations.  The scaler is  *)
(* the documented StandardScaler; the encoder stands for ClassEncoder,     *)
(* whose produce returns two variables; the classifier for the             *)
(* RandomForestClassifier of the examples.  Booleans are written 0 / 1.    *)
(***************************************************************************)
Scaler == <<"sklearn", ".", "preprocessing", ".", "StandardScaler">>
Encoder == <<"mlprimitives", ".", "custom", ".", "preprocessing", ".", "ClassEncoder">>
Classifier == <<"sklearn", ".", "ensemble", ".", "RandomForestClassifier">>

\* Two primitives of the text pipelines: the cleaner has no fit method, the
\* vectorizer has one.
TextCleaner == <<"mlprimitives", ".", "custom", ".", "text", ".", "TextCleaner">>
StringVectorizer == <<"mlprimitives", ".", "custom", ".", "feature_extraction", ".", "StringVectorizer">>

\* The classifier of the hyperparameter tutorial, with two tunable
\* hyperparameters (the learning rate in tenths).
Booster == <<"xgboost", ".", "XGBClassifier">>

\* A function primitive, and a class primitive one of whose hyperparameters
\* (epochs) is an argument of its fit method, not of its constructor.
Argmax == <<"numpy", ".", "argmax">>
ImageClassifier == <<"keras", ".", "Sequential", ".", "SingleLayerCNNImageClassifier">>

\* The primitive of the hyperparameter documentation whose max_features is
\* of several types and whose max_features_aggregation is conditional on
\* it, with a null default (the hyperparameter is disabled when no entry
\* matches) and with a full specification as default.
Selector == <<"max_features", ".", "Selector">>
SelectorDefaulted == <<"max_features", ".", "SelectorDefaulted">>

\* A value of a hyperparameter of several types, with its type.
Typed(tag, datum) == <<tag, datum>>

Primitives == {Scaler, Encoder, Classifier}

\* The annotation of the two primitives with a conditional hyperparameter.
\* The default of a conditional entry is a set: empty for null, or the one
\* specification to use when no entry of values matches.
SelectorAnnotation(primitive) ==
    [kind |-> "class",
     fit_method |-> "fit",
     fit_args |-> <<"X", "y">>,
     produce_args |-> <<"X">>,
     produce_output |-> <<"X">>,
     tunable |-> [h \in {"max_features", "max_features_aggregation"} |->
                    IF h = "max_features"
                    THEN [type |-> "multitype",
                          default |-> Typed("string", "auto"),
                          values |-> {Typed("string", "auto"), Typed("int", 1),
                                      Typed("int", 100)}]
                    ELSE [type |-> "conditional",
                          condition |-> "max_features",
                          default |-> IF primitive = Selector THEN {}
                                      ELSE {[type |-> "str", default |-> "max",
                                             values |-> {"mean", "max", "min"}]},
                          values |-> [v \in {Typed("string", "auto")} |->
                                        [type |-> "str", default |-> "mean",
                                         values |-> {"mean", "max", "min"}]]]]]

Annotation(primitive) ==
    CASE primitive = Scaler ->
            [kind |-> "class",
             fit_method |-> "fit",
             fit_args |-> <<"X">>,
             produce_args |-> <<"X">>,
             produce_output |-> <<"X">>,
             tunable |-> [h \in {"with_mean"} |->
                            [type |-> "bool", default |-> 1, values |-> {0, 1}]]]
      [] primitive = Encoder ->
            [kind |-> "class",
             fit_method |-> "fit",
             fit_args |-> <<"y">>,
             produce_args |-> <<"y">>,
             produce_output |-> <<"y", "classes">>,
             tunable |-> EmptyDict]
      [] primitive = Classifier ->
            [kind |-> "class",
             fit_method |-> "fit",
             fit_args |-> <<"X", "y">>,
             produce_args |-> <<"X">>,
             produce_output |-> <<"y">>,
             tunable |-> [h \in {"max_depth"} |->
                            [type |-> "int", default |-> 10, values |-> {10, 15}]]]
      [] primitive = Booster ->
            [kind |-> "class",
             fit_method |-> "fit",
             fit_args |-> <<"X", "y">>,
             produce_args |-> <<"X">>,
             produce_output |-> <<"y">>,
             tunable |-> [h \in {"max_depth", "learning_rate"} |->
                            IF h = "max_depth"
                            THEN [type |-> "int", default |-> 3, values |-> {3, 4}]
                            ELSE [type |-> "float", default |-> 1, values |-> {1, 3}]]]
      [] primitive = TextCleaner ->
            [kind |-> "class",
             fit_method |-> None,
             fit_args |-> <<>>,
             produce_args |-> <<"X">>,
             produce_output |-> <<"X">>,
             tunable |-> EmptyDict]
      [] primitive = StringVectorizer ->
            [kind |-> "class",
             fit_method |-> "fit",
             fit_args |-> <<"X">>,
             produce_args |-> <<"X">>,
             produce_output |-> <<"X">>,
             tunable |-> EmptyDict]
      [] primitive \in {Selector, SelectorDefaulted} -> SelectorAnnotation(primitive)
      [] primitive = Argmax ->
            [kind |-> "function",
             fit_method |-> None,
             fit_args |-> <<>>,
             produce_args |-> <<"y">>,
             produce_output |-> <<"y">>,
             tunable |-> EmptyDict]
      [] primitive = ImageClassifier ->
            [kind |-> "class",
             fit_method |-> "fit",
             fit_args |-> <<"X", "y">>,
             produce_args |-> <<"X">>,
             produce_output |-> <<"y">>,
             tunable |-> [h \in {"dense_units", "epochs"} |->
                            IF h = "dense_units"
                            THEN [type |-> "int", default |-> 10, values |-> {10, 11}]
                            ELSE [type |-> "int", default |-> 20, values |-> {5, 20}]]]

\* The hyperparameters of a primitive that are arguments of its fit or
\* produce method: they are passed when the method is called, not when the
\* object is constructed.
MethodParams(primitive) ==
    IF primitive = ImageClassifier THEN {"epochs"} ELSE {}

\* A wrong name: the occurrences of a primitive are not counted.
BlockNameUncounted(primitive, count) == primitive \o <<"#", "1">>

(***************************************************************************)
(* Block names: the primitive name, a hash and a counter.                  *)
(***************************************************************************)
BlockName(primitive, count) == primitive \o <<"#", ToString(count)>>

\* The names given to the blocks of a primitive list: a Counter of the
\* primitive names is updated as the list is walked.
RECURSIVE BuildNames(_, _, _)
BuildNames(primitives, counter, names) ==
    IF Len(names) = Len(primitives) THEN names
    ELSE LET primitive == primitives[Len(names) + 1]
             count == Get(counter, primitive, 0) + 1
         IN BuildNames(primitives,
                       Update(counter, [p \in {primitive} |-> count]),
                       Append(names, BlockName(primitive, count)))

BlockNames(primitives) == BuildNames(primitives, EmptyDict, <<>>)

(***************************************************************************)
(* MLBlock                                                                 *)
(***************************************************************************)
\* The specification that an entry of the tunable hyperparameters stands
\* for when the hyperparameters have the given values, as a set: the entry
\* itself, or for a conditional entry the one that values holds for the
\* value of the condition hyperparameter, or else its default; the set is
\* empty when the hyperparameter is disabled.
Resolve(entry, hyperparameters) ==
    IF entry.type # "conditional" THEN {entry}
    ELSE LET value == hyperparameters[entry.condition]
         IN IF value \in DOMAIN entry.values THEN {entry.values[value]}
            ELSE entry.default

\* The default hyperparameter values of a primitive.
DefaultHyperparameters(primitive) ==
    LET tunable == Annotation(primitive).tunable
        plain == {h \in DOMAIN tunable : tunable[h].type # "conditional"}
        values == [h \in plain |-> tunable[h].default]
        resolved == [h \in DOMAIN tunable |-> Resolve(tunable[h], values)]
    IN [h \in {n \in DOMAIN tunable : resolved[n] # {}} |->
          (CHOOSE s \in resolved[h] : TRUE).default]

\* A freshly constructed, unfitted underlying object.
NewInstance == [fitted |-> FALSE, model |-> 0]

\* MLBlock(primitive, **block_params)
NewBlock(name, primitive, block_params) ==
    [name |-> name,
     primitive |-> primitive,
     hyperparameters |-> Update(DefaultHyperparameters(primitive), block_params),
     instance |-> NewInstance]

\* A wrong get_hyperparameters: the default values.
BlockGetHyperparametersDefault(block) == DefaultHyperparameters(block.primitive)

\* The names of the conditional hyperparameters of a primitive.
ConditionalNames(primitive) ==
    {h \in DOMAIN Annotation(primitive).tunable :
        Annotation(primitive).tunable[h].type = "conditional"}

\* A wrong get_tunable_hyperparameters: the conditional hyperparameters are
\* resolved against the values the block has when it is created without
\* init_params.
BlockGetTunableHyperparametersCreated(block) ==
    LET tunable == Annotation(block.primitive).tunable
        created == DefaultHyperparameters(block.primitive)
        resolved == [h \in DOMAIN tunable |-> Resolve(tunable[h], created)]
    IN [h \in {n \in DOMAIN tunable : resolved[n] # {}} |->
          CHOOSE s \in resolved[h] : TRUE]

\* MLBlock.get_tunable_hyperparameters(): the tunable hyperparameters, the
\* conditional ones resolved against the current values.
BlockGetTunableHyperparameters(block) ==
    LET tunable == Annotation(block.primitive).tunable
        resolved == [h \in DOMAIN tunable |->
                       Resolve(tunable[h], block.hyperparameters)]
    IN [h \in {n \in DOMAIN tunable : resolved[n] # {}} |->
          CHOOSE s \in resolved[h] : TRUE]

\* MLBlock.get_hyperparameters(): a copy of the current values; a
\* conditional hyperparameter is among them when it is not disabled, with
\* the default of its specification when it was given no value.
BlockGetHyperparameters(block) ==
    LET conditional == ConditionalNames(block.primitive)
        tunable == BlockGetTunableHyperparameters(block)
        names == ((DOMAIN block.hyperparameters) \ conditional)
                     \cup (conditional \cap DOMAIN tunable)
    IN [n \in names |->
          IF n \in DOMAIN block.hyperparameters THEN block.hyperparameters[n]
          ELSE tunable[n].default]

\* A wrong set_hyperparameters: the underlying object is recreated whatever
\* the values given.
BlockSetHyperparametersAnew(block, hyperparameters) ==
    [block EXCEPT !.hyperparameters = Update(@, hyperparameters),
                  !.instance = NewInstance]

\* The underlying object of a block whose hyperparameters become merged:
\* it is discarded and constructed again when a value that its construction
\* depends on changes, and kept when none does; the values passed to the
\* fit or produce method are not among these, and a function has no object
\* to construct.
Rebuild(block, merged) ==
    LET changed == {n \in DOMAIN merged : merged[n] # block.hyperparameters[n]}
    IN IF Annotation(block.primitive).kind = "function" THEN block.instance
       ELSE IF changed \subseteq MethodParams(block.primitive) THEN block.instance
            ELSE NewInstance

\* MLBlock.set_hyperparameters(): the given values are merged into the
\* current ones, and the underlying object is recreated as needed for the
\* changes to take effect.
BlockSetHyperparameters(block, hyperparameters) ==
    LET merged == Update(block.hyperparameters, hyperparameters)
    IN [block EXCEPT !.hyperparameters = merged,
                     !.instance = Rebuild(block, merged)]

(***************************************************************************)
(* MLPipeline: construction                                                *)
(***************************************************************************)
\* The object ids the next n allocations return.
NewIds(h, n) ==
    LET top == IF DOMAIN h = {} THEN 0 ELSE CHOOSE t \in DOMAIN h : \A id \in DOMAIN h : id <= t
    IN [i \in 1 .. n |-> top + i]

\* Wrong init_params of a block: the entry under the block name only.
BlockParamsNamed(init_params, primitives, names, i) ==
    Get(init_params, names[i], EmptyDict)

\* The init_params of the block at position i: the entry under the block
\* name, or else the entry under the bare primitive name.
BlockParams(init_params, primitives, names, i) ==
    LET named == Get(init_params, names[i], EmptyDict)
    IN IF DOMAIN named # {} THEN named
       ELSE Get(init_params, primitives[i], EmptyDict)

\* A flat key is the pair (block name, hyperparameter name); a block name
\* has at least three tokens.
IsFlatKey(key) == Len(key) = 2

\* A wrong _sanitize: the flat keys are dropped.
SanitizeNested(hyperparameters) ==
    [b \in {k \in DOMAIN hyperparameters : ~IsFlatKey(k)} |-> hyperparameters[b]]

\* MLPipeline._sanitize(): the flat format, keyed by (block name,
\* hyperparameter name), is converted into the nested one.
Sanitize(hyperparameters) ==
    LET keys == DOMAIN hyperparameters
        flat == {k \in keys : IsFlatKey(k)}
        blocks == {k \in keys : ~IsFlatKey(k)} \cup {k[1] : k \in flat}
    IN [b \in blocks |->
          Update(IF b \in keys THEN hyperparameters[b] ELSE EmptyDict,
                 [n \in {k[2] : k \in {f \in flat : f[1] = b}} |->
                     hyperparameters[<<b, n>>]])]

\* MLPipeline._flatten_dict()
FlattenDict(nested) ==
    LET keys == UNION {{<<b, n>> : n \in DOMAIN nested[b]} : b \in DOMAIN nested}
    IN [k \in keys |-> nested[k[1]][k[2]]]

\* The position of the block called name, 0 when there is none.
BlockIndex(h, pipeline, name) ==
    LET found == {i \in 1 .. Len(pipeline.blocks) : h[pipeline.blocks[i]].name = name}
    IN IF found = {} THEN 0 ELSE CHOOSE i \in found : TRUE

\* MLPipeline.get_hyperparameters(flat)
GetHyperparameters(h, pipeline, flat) ==
    LET ids == Range(pipeline.blocks)
        nested == [name \in {h[id].name : id \in ids} |->
                     BlockGetHyperparameters(
                         h[pipeline.blocks[BlockIndex(h, pipeline, name)]])]
    IN IF flat THEN FlattenDict(nested) ELSE nested

\* A wrong set_hyperparameters: the values given to a block replace the
\* ones it has instead of being merged into them.
SetHyperparametersReplaced(h, pipeline, hyperparameters) ==
    LET nested == Sanitize(hyperparameters)
        ids == Range(pipeline.blocks)
    IN [id \in DOMAIN h |->
          IF id \in ids /\ h[id].name \in DOMAIN nested
          THEN BlockSetHyperparameters(
                   [h[id] EXCEPT !.hyperparameters = DefaultHyperparameters(h[id].primitive)],
                   nested[h[id].name])
          ELSE h[id]]

\* MLPipeline.set_hyperparameters(): the heap after every block named in
\* the given values got its part of them.
SetHyperparameters(h, pipeline, hyperparameters) ==
    LET nested == Sanitize(hyperparameters)
        ids == Range(pipeline.blocks)
    IN [id \in DOMAIN h |->
          IF id \in ids /\ h[id].name \in DOMAIN nested
          THEN BlockSetHyperparameters(h[id], nested[h[id].name])
          ELSE h[id]]

\* The tunable hyperparameters of every block, from the annotations.
DefaultTunable(primitives) ==
    LET names == BlockNames(primitives)
    IN [name \in Range(names) |->
          Annotation(primitives[CHOOSE i \in DOMAIN names : names[i] = name]).tunable]

\* MLPipeline(primitives, init_params, input_names, output_names,
\* hyperparameters, tunable_hyperparameters): one new MLBlock per primitive;
\* the hyperparameters and the tunable ranges are taken from the arguments
\* when they are given (an empty dict when they are not).  Returns the
\* pipeline and the heap that holds its blocks.
NewPipeline(h, primitives, init_params, input_names, output_names, hyperparameters, tunable_hyperparameters) ==
    LET names == BlockNames(primitives)
        ids == NewIds(h, Len(primitives))
        built == [id \in (DOMAIN h) \cup Range(ids) |->
                    IF id \in DOMAIN h THEN h[id]
                    ELSE LET i == CHOOSE j \in DOMAIN ids : ids[j] = id
                         IN NewBlock(names[i], primitives[i],
                                     BlockParams(init_params, primitives, names, i))]
        pipeline == [primitives |-> primitives,
                     init_params |-> init_params,
                     input_names |-> input_names,
                     output_names |-> output_names,
                     blocks |-> ids,
                     tunable_hyperparameters |->
                         IF DOMAIN tunable_hyperparameters = {}
                         THEN DefaultTunable(primitives)
                         ELSE tunable_hyperparameters]
    IN [pipeline |-> pipeline,
        heap |-> SetHyperparameters(built, pipeline, hyperparameters)]

(***************************************************************************)
(* MLPipeline: dict representation                                         *)
(***************************************************************************)
\* MLPipeline.to_dict(): the arguments the pipeline was created with, the
\* hyperparameters it is currently using and the tunable hyperparameters.
ToDict(h, pipeline) ==
    [primitives |-> pipeline.primitives,
     init_params |-> pipeline.init_params,
     input_names |-> pipeline.input_names,
     output_names |-> pipeline.output_names,
     hyperparameters |-> GetHyperparameters(h, pipeline, FALSE),
     tunable_hyperparameters |-> pipeline.tunable_hyperparameters]

\* A wrong from_dict: the hyperparameters of the dict are not used.
FromDictDefaults(h, dict) ==
    NewPipeline(h, dict.primitives, dict.init_params, dict.input_names,
                dict.output_names, EmptyDict, dict.tunable_hyperparameters)

\* A wrong from_dict: the pipeline gets the blocks of these names that exist
\* already instead of blocks of its own.
FromDictShared(h, dict) ==
    LET names == BlockNames(dict.primitives)
        new == NewPipeline(h, dict.primitives, dict.init_params, dict.input_names,
                           dict.output_names, dict.hyperparameters,
                           dict.tunable_hyperparameters)
        Same(i) == {id \in DOMAIN h : h[id].name = names[i]}
        pipeline == [new.pipeline EXCEPT !.blocks =
                        [i \in DOMAIN names |->
                            CHOOSE id \in Same(i) : \A o \in Same(i) : id <= o]]
    IN [pipeline |-> pipeline,
        heap |-> SetHyperparameters(h, pipeline, dict.hyperparameters)]

\* MLPipeline.from_dict() / MLPipeline(dict)
FromDict(h, dict) ==
    NewPipeline(h, dict.primitives, dict.init_params, dict.input_names,
                dict.output_names, dict.hyperparameters,
                dict.tunable_hyperparameters)

(***************************************************************************)
(* The underlying primitives.  What a primitive computes is opaque to the  *)
(* engine; here every primitive is a deterministic function of everything  *)
(* it is given: its arguments (weighted by position), the hyperparameters  *)
(* its object was constructed with and, for produce, what the object       *)
(* learned in fit.                                                         *)
(***************************************************************************)
RECURSIVE ArgSum(_, _, _)
ArgSum(args, kwargs, i) ==
    IF i > Len(args) THEN 0
    ELSE i * kwargs[args[i]] + ArgSum(args, kwargs, i + 1)

RECURSIVE DictSum(_, _)
DictSum(d, keys) ==
    IF keys = {} THEN 0
    ELSE LET k == CHOOSE x \in keys : TRUE
         IN d[k] + DictSum(d, keys \ {k})

HpSum(block) == DictSum(block.hyperparameters, DOMAIN block.hyperparameters)

\* The fitted object: what the primitive's fit method learns.
FitInstance(block, kwargs) ==
    [fitted |-> TRUE,
     model |-> (ArgSum(Annotation(block.primitive).fit_args, kwargs, 1)
                  + HpSum(block) + 1) % MaxVal]

\* What the primitive's produce method returns, one value per declared output.
ProduceOutputs(block, kwargs) ==
    LET annotation == Annotation(block.primitive)
    IN [j \in 1 .. Len(annotation.produce_output) |->
          (ArgSum(annotation.produce_args, kwargs, 1)
             + block.instance.model + HpSum(block) + j) % MaxVal]

\* The exception the primitive's own method raises on these arguments, None
\* when it returns: the cleaner's produce fails on data without the column
\* it looks for, the vectorizer's fit on data without any word; such data
\* are the value 0.
Raises(block, method, kwargs) ==
    IF block.primitive = TextCleaner /\ method = "produce" /\ kwargs["X"] = 0
    THEN "KeyError"
    ELSE IF block.primitive = StringVectorizer /\ method = "fit" /\ kwargs["X"] = 0
         THEN "ValueError"
         ELSE None

(***************************************************************************)
(* MLPipeline: the Context and the blocks                                  *)
(***************************************************************************)
\* A wrong reading of the arguments: an argument that the context does not
\* hold is passed as 0.
GetBlockArgsDefaulted(pipeline, name, args, context) ==
    LET input_names == Get(pipeline.input_names, name, EmptyDict)
    IN [a \in Range(args) |-> Get(context, Get(input_names, a, a), 0)]

\* A wrong reading of the arguments: the input_names of the block are not
\* looked at.
GetBlockArgsUnmapped(pipeline, name, args, context) ==
    [a \in {b \in Range(args) : b \in DOMAIN context} |-> context[a]]

\* MLPipeline._get_block_args(): the values of the arguments the method
\* expects are read from the context, under the names the block's
\* input_names give them.
GetBlockArgs(pipeline, name, args, context) ==
    LET input_names == Get(pipeline.input_names, name, EmptyDict)
        found == {a \in Range(args) : Get(input_names, a, a) \in DOMAIN context}
    IN [a \in found |-> context[Get(input_names, a, a)]]

\* A wrong capture of the outputs: the values are taken in reverse order.
ExtractOutputsReversed(pipeline, name, outputs, produce_output) ==
    LET output_names == Get(pipeline.output_names, name, EmptyDict)
    IN [v \in {Get(output_names, produce_output[j], produce_output[j]) :
                  j \in DOMAIN produce_output} |->
          outputs[CHOOSE j \in DOMAIN produce_output :
                     Get(output_names, produce_output[Len(produce_output) + 1 - j],
                         produce_output[Len(produce_output) + 1 - j]) = v]]

\* MLPipeline._extract_outputs(): the outputs are captured in order under
\* the names the block's output_names give them.
ExtractOutputs(pipeline, name, outputs, produce_output) ==
    LET output_names == Get(pipeline.output_names, name, EmptyDict)
        renamed == [j \in DOMAIN produce_output |->
                       Get(output_names, produce_output[j], produce_output[j])]
    IN [v \in Range(renamed) |->
          outputs[CHOOSE j \in DOMAIN renamed :
                     /\ renamed[j] = v
                     /\ \A l \in DOMAIN renamed : renamed[l] = v => l <= j]]

\* A wrong capture: a value is captured again after every later block.
UpdateOutputsLate(output_variables, outputs, i, context) ==
    [n \in DOMAIN outputs |->
        IF output_variables[n].block > i THEN outputs[n]
        ELSE IF output_variables[n].variable = None
             THEN [kind |-> "context", value |-> context]
             ELSE IF output_variables[n].variable \in DOMAIN context
                  THEN [kind |-> "value",
                        value |-> context[output_variables[n].variable]]
                  ELSE [kind |-> "error", value |-> "KeyError"]]

\* The values of output_variables that belong to block i are captured from
\* the context as it is right after the block was produced.
UpdateOutputs(output_variables, outputs, i, context) ==
    [n \in DOMAIN outputs |->
        IF output_variables[n].block # i THEN outputs[n]
        ELSE IF output_variables[n].variable = None
             THEN [kind |-> "context", value |-> context]
             ELSE IF output_variables[n].variable \in DOMAIN context
                  THEN [kind |-> "value",
                        value |-> context[output_variables[n].variable]]
                  ELSE [kind |-> "error", value |-> "KeyError"]]

\* No exception.
NoError == [type |-> "None", block |-> 0, phase |-> None, cause |-> None]

\* The error of a block whose method expects an argument that the context
\* does not hold: it names the block and the phase.
BindingError(i, phase) == [type |-> "TypeError", block |-> i, phase |-> phase, cause |-> None]

\* The exception of a primitive as the pipeline lets it through: the
\* exception itself.
Raised(exception) == [type |-> exception, block |-> 0, phase |-> None, cause |-> None]

\* The record the pipeline logs when the method of a block raised:
\* 'Exception caught producing MLBlock {name}'.
Caught(phase, name) == [message |-> "Exception caught", phase |-> phase, block |-> name]

\* The record of one invocation of a method of a block: the arguments the
\* method received, the context as it was when they were read and what the
\* pipeline wrote into the context afterwards.
Invoked(i, phase, kwargs, context, written) ==
    [block |-> i, phase |-> phase, kwargs |-> kwargs, context |-> context,
     written |-> written]

\* A wrong fit: a block is fitted whether its primitive has a fit method or
\* not.
FitBlockAlways(run, pipeline, i) ==
    LET id == pipeline.blocks[i]
        block == run.heap[id]
        args == Annotation(block.primitive).fit_args
        kwargs == GetBlockArgs(pipeline, block.name, args, run.context)
    IN IF DOMAIN kwargs # Range(args)
       THEN [run EXCEPT !.error = BindingError(i, "fit")]
       ELSE [run EXCEPT !.heap[id].instance = FitInstance(block, kwargs),
                        !.trace = Append(@, <<i, "fit">>),
                        !.calls = Append(@, Invoked(i, "fit", kwargs, run.context,
                                                    EmptyDict))]

\* MLPipeline._fit_block(): the block's fit method is called with the
\* arguments found in the context.
FitBlock(run, pipeline, i) ==
    LET id == pipeline.blocks[i]
        block == run.heap[id]
        args == Annotation(block.primitive).fit_args
        kwargs == GetBlockArgs(pipeline, block.name, args, run.context)
    IN IF Annotation(block.primitive).fit_method = None THEN run
       ELSE IF DOMAIN kwargs # Range(args)
       THEN [run EXCEPT !.error = BindingError(i, "fit")]
       ELSE IF Raises(block, "fit", kwargs) # None
       THEN [run EXCEPT !.error = Raised(Raises(block, "fit", kwargs)),
                        !.log = Append(@, Caught("fitting", block.name)),
                        !.trace = Append(@, <<i, "fit">>),
                        !.calls = Append(@, Invoked(i, "fit", kwargs, run.context,
                                                    EmptyDict))]
       ELSE [run EXCEPT !.heap[id].instance = FitInstance(block, kwargs),
                        !.trace = Append(@, <<i, "fit">>),
                        !.calls = Append(@, Invoked(i, "fit", kwargs, run.context,
                                                    EmptyDict))]

\* A wrong produce: the exception of the primitive is logged and the run
\* goes on with the context as it is.
ProduceBlockSwallowed(run, pipeline, i) ==
    LET id == pipeline.blocks[i]
        block == run.heap[id]
        annotation == Annotation(block.primitive)
        kwargs == GetBlockArgs(pipeline, block.name, annotation.produce_args,
                               run.context)
    IN IF DOMAIN kwargs # Range(annotation.produce_args)
       THEN [run EXCEPT !.error = BindingError(i, "produce")]
       ELSE IF Raises(block, "produce", kwargs) # None
       THEN [run EXCEPT !.log = Append(@, Caught("producing", block.name)),
                        !.trace = Append(@, <<i, "produce">>),
                        !.pending = @ \ {i}]
       ELSE LET context == Update(run.context,
                               ExtractOutputs(pipeline, block.name,
                                              ProduceOutputs(block, kwargs),
                                              annotation.produce_output))
            IN [run EXCEPT
                   !.context = context,
                   !.trace = Append(@, <<i, "produce">>),
                   !.outputs = UpdateOutputs(run.output_variables, @, i, context),
                   !.pending = @ \ {i}]

\* A wrong produce: the pipeline refuses to produce a block whose object
\* was not fitted.
ProduceBlockGuarded(run, pipeline, i) ==
    LET id == pipeline.blocks[i]
        block == run.heap[id]
        annotation == Annotation(block.primitive)
        kwargs == GetBlockArgs(pipeline, block.name, annotation.produce_args,
                               run.context)
    IN IF ~block.instance.fitted
       THEN [run EXCEPT !.error = Raised("NotFittedError")]
       ELSE IF DOMAIN kwargs # Range(annotation.produce_args)
       THEN [run EXCEPT !.error = BindingError(i, "produce")]
       ELSE LET context == Update(run.context,
                               ExtractOutputs(pipeline, block.name,
                                              ProduceOutputs(block, kwargs),
                                              annotation.produce_output))
            IN [run EXCEPT
                   !.context = context,
                   !.trace = Append(@, <<i, "produce">>),
                   !.outputs = UpdateOutputs(run.output_variables, @, i, context),
                   !.pending = @ \ {i}]

\* A wrong produce: an output does not replace the value that the context
\* already holds under its name.
ProduceBlockKeeping(run, pipeline, i) ==
    LET id == pipeline.blocks[i]
        block == run.heap[id]
        annotation == Annotation(block.primitive)
        kwargs == GetBlockArgs(pipeline, block.name, annotation.produce_args,
                               run.context)
    IN IF DOMAIN kwargs # Range(annotation.produce_args)
       THEN [run EXCEPT !.error = BindingError(i, "produce")]
       ELSE LET written == ExtractOutputs(pipeline, block.name,
                                          ProduceOutputs(block, kwargs),
                                          annotation.produce_output)
                context == Update(written, run.context)
            IN [run EXCEPT
                   !.context = context,
                   !.trace = Append(@, <<i, "produce">>),
                   !.calls = Append(@, Invoked(i, "produce", kwargs,
                                               run.context, written)),
                   !.outputs = UpdateOutputs(run.output_variables, @, i, context),
                   !.pending = @ \ {i}]

\* MLPipeline._produce_block(): the block's produce method is called with
\* the arguments found in the context, its outputs are put back into the
\* context and the requested ones are captured.
ProduceBlock(run, pipeline, i) ==
    LET id == pipeline.blocks[i]
        block == run.heap[id]
        annotation == Annotation(block.primitive)
        kwargs == GetBlockArgs(pipeline, block.name, annotation.produce_args,
                               run.context)
    IN IF DOMAIN kwargs # Range(annotation.produce_args)
       THEN [run EXCEPT !.error = BindingError(i, "produce")]
       ELSE IF Raises(block, "produce", kwargs) # None
       THEN [run EXCEPT !.error = Raised(Raises(block, "produce", kwargs)),
                        !.log = Append(@, Caught("producing", block.name)),
                        !.trace = Append(@, <<i, "produce">>),
                        !.calls = Append(@, Invoked(i, "produce", kwargs,
                                                    run.context, EmptyDict))]
       ELSE LET written == ExtractOutputs(pipeline, block.name,
                                          ProduceOutputs(block, kwargs),
                                          annotation.produce_output)
                context == Update(run.context, written)
            IN [run EXCEPT
                   !.context = context,
                   !.trace = Append(@, <<i, "produce">>),
                   !.calls = Append(@, Invoked(i, "produce", kwargs,
                                               run.context, written)),
                   !.outputs = UpdateOutputs(run.output_variables, @, i, context),
                   !.pending = @ \ {i}]

(***************************************************************************)
(* MLPipeline: start_ and output_                                          *)
(*                                                                         *)
(* An argument is None, an integer, a string or a list of strings; the     *)
(* model tags it with its type: [type |-> "none" | "int" | "str" | "list", *)
(* value |-> ...].  Integers are zero-based block indexes; the model's     *)
(* positions are one-based.                                                *)
(***************************************************************************)
NoneArg == [type |-> "none", value |-> None]
IntArg(k) == [type |-> "int", value |-> k]
StrArg(s) == [type |-> "str", value |-> s]
ListArg(l) == [type |-> "list", value |-> l]

\* A wrong split: the position of the first dot of a string.
FirstDot(s) ==
    LET dots == {i \in DOMAIN s : s[i] = "."}
    IN IF dots = {} THEN 0 ELSE CHOOSE i \in dots : \A j \in dots : i <= j

\* The position of the last dot of a string, 0 when it has none.
LastDot(s) ==
    LET dots == {i \in DOMAIN s : s[i] = "."}
    IN IF dots = {} THEN 0 ELSE CHOOSE i \in dots : \A j \in dots : j <= i

\* The context variable a string names; variable names are single tokens.
VarName(s) == IF Len(s) = 1 THEN s[1] ELSE "#"

\* Marks an output specification that names no block.
Invalid == [block |-> 0, variable |-> None]

\* A wrong reading of a string: when the part before the last dot is no
\* block name, the part after it is taken as a variable after the last
\* block.
StrOutputLenient(h, pipeline, s) ==
    IF BlockIndex(h, pipeline, s) # 0
    THEN [block |-> BlockIndex(h, pipeline, s), variable |-> None]
    ELSE IF LastDot(s) = 0
         THEN [block |-> Len(pipeline.blocks), variable |-> VarName(s)]
         ELSE LET block_name == SubSeq(s, 1, LastDot(s) - 1)
                  variable_name == SubSeq(s, LastDot(s) + 1, Len(s))
              IN IF BlockIndex(h, pipeline, block_name) # 0
                 THEN [block |-> BlockIndex(h, pipeline, block_name),
                       variable |-> VarName(variable_name)]
                 ELSE [block |-> Len(pipeline.blocks),
                       variable |-> VarName(variable_name)]

\* A wrong reading of a string: a string that is no block name and has no
\* dot names nothing.
StrOutputStrict(h, pipeline, s) ==
    IF BlockIndex(h, pipeline, s) # 0
    THEN [block |-> BlockIndex(h, pipeline, s), variable |-> None]
    ELSE IF LastDot(s) = 0
         THEN Invalid
         ELSE LET block_name == SubSeq(s, 1, LastDot(s) - 1)
                  variable_name == SubSeq(s, LastDot(s) + 1, Len(s))
              IN IF BlockIndex(h, pipeline, block_name) # 0
                 THEN [block |-> BlockIndex(h, pipeline, block_name),
                       variable |-> VarName(variable_name)]
                 ELSE Invalid

\* The output a string specifies: a block name stands for the whole context
\* after that block (variable None); a string without a dot that is no
\* block name is a variable, taken after the last block; any other string
\* is split on its last dot into a block name and a variable name.
StrOutput(h, pipeline, s) ==
    IF BlockIndex(h, pipeline, s) # 0
    THEN [block |-> BlockIndex(h, pipeline, s), variable |-> None]
    ELSE IF LastDot(s) = 0
         THEN [block |-> Len(pipeline.blocks), variable |-> VarName(s)]
         ELSE LET block_name == SubSeq(s, 1, LastDot(s) - 1)
                  variable_name == SubSeq(s, LastDot(s) + 1, Len(s))
              IN IF BlockIndex(h, pipeline, block_name) # 0
                 THEN [block |-> BlockIndex(h, pipeline, block_name),
                       variable |-> VarName(variable_name)]
                 ELSE Invalid

\* A wrong default: the whole context after the last block.
DefaultOutputsContext(h, pipeline) ==
    <<[block |-> Len(pipeline.blocks), variable |-> None]>>

\* The outputs of the last block, under the names output_names give them:
\* what predict returns when output_ is None.
DefaultOutputs(h, pipeline) ==
    LET last_block == h[pipeline.blocks[Len(pipeline.blocks)]]
        produce_output == Annotation(last_block.primitive).produce_output
        output_names == Get(pipeline.output_names, last_block.name, EmptyDict)
    IN [j \in DOMAIN produce_output |->
          [block |-> Len(pipeline.blocks),
           variable |-> Get(output_names, produce_output[j], produce_output[j])]]

\* A wrong output_: an integer is taken as a one-based position.
OutputVariablesOneBased(h, pipeline, output) ==
    CASE output.type = "none" -> DefaultOutputs(h, pipeline)
      [] output.type = "int" ->
            <<[block |-> IF output.value = 0 THEN 1 ELSE output.value, variable |-> None]>>
      [] output.type = "str" -> <<StrOutput(h, pipeline, output.value)>>
      [] output.type = "list" ->
            [n \in DOMAIN output.value |-> StrOutput(h, pipeline, output.value[n])]

\* The variables an output_ argument asks for, in the order asked.
OutputVariables(h, pipeline, output) ==
    CASE output.type = "none" -> DefaultOutputs(h, pipeline)
      [] output.type = "int" -> <<[block |-> output.value + 1, variable |-> None]>>
      [] output.type = "str" -> <<StrOutput(h, pipeline, output.value)>>
      [] output.type = "list" ->
            [n \in DOMAIN output.value |-> StrOutput(h, pipeline, output.value[n])]

\* A wrong start_: the run resumes at block k itself, executing it again.
StartIndexAgain(h, pipeline, start) ==
    CASE start.type = "none" -> 1
      [] start.type = "int" -> IF start.value = 0 THEN 1 ELSE start.value
      [] start.type = "str" -> BlockIndex(h, pipeline, start.value)

\* The position of the first block to execute.
StartIndex(h, pipeline, start) ==
    CASE start.type = "none" -> 1
      [] start.type = "int" -> start.value + 1
      [] start.type = "str" -> BlockIndex(h, pipeline, start.value)

(***************************************************************************)
(* MLPipeline: fit and predict                                             *)
(***************************************************************************)
Pending == [kind |-> "pending", value |-> None]

\* A wrong start of a call: the run is over once the block of the last
\* output asked for was produced.
NewRunLast(h, context, has_outputs, output_variables) ==
    [heap |-> h,
     context |-> context,
     has_outputs |-> has_outputs,
     output_variables |-> output_variables,
     outputs |-> [n \in DOMAIN output_variables |-> Pending],
     pending |-> IF has_outputs
                 THEN {output_variables[Len(output_variables)].block}
                 ELSE {},
     trace |-> <<>>,
     calls |-> <<>>,
     log |-> <<>>,
     error |-> NoError,
     returned |-> FALSE]

\* A wrong start of a call: the context of the call before is kept and the
\* variables passed are added to it.
NewRunCarried(h, context, has_outputs, output_variables) ==
    [heap |-> h,
     context |-> Update(last.context, context),
     has_outputs |-> has_outputs,
     output_variables |-> output_variables,
     outputs |-> [n \in DOMAIN output_variables |-> Pending],
     pending |-> IF has_outputs THEN {v.block : v \in Range(output_variables)} ELSE {},
     trace |-> <<>>,
     calls |-> <<>>,
     log |-> <<>>,
     error |-> NoError,
     returned |-> FALSE]

\* The state of a call as it starts: the context holds the variables passed.
NewRun(h, context, has_outputs, output_variables) ==
    [heap |-> h,
     context |-> context,
     has_outputs |-> has_outputs,
     output_variables |-> output_variables,
     outputs |-> [n \in DOMAIN output_variables |-> Pending],
     pending |-> IF has_outputs THEN {v.block : v \in Range(output_variables)} ELSE {},
     trace |-> <<>>,
     calls |-> <<>>,
     log |-> <<>>,
     error |-> NoError,
     returned |-> FALSE]

\* A wrong loop: a fit that is asked for no output does not produce its
\* last block.
RECURSIVE RunBlocksLastUnproduced(_, _, _, _, _)
RunBlocksLastUnproduced(run, pipeline, method, start, i) ==
    IF i > Len(pipeline.blocks) THEN run
    ELSE IF i < start THEN RunBlocksLastUnproduced(run, pipeline, method, start, i + 1)
    ELSE LET Produce(fitted) ==
                 IF fitted.error.type # "None" THEN fitted
                 ELSE IF method = "fit" /\ ~fitted.has_outputs /\ i = Len(pipeline.blocks)
                      THEN fitted
                      ELSE ProduceBlock(fitted, pipeline, i)
             Continue(produced) ==
                 IF produced.error.type # "None" THEN produced
                 ELSE IF produced.has_outputs /\ produced.pending = {}
                      THEN [produced EXCEPT !.returned = TRUE]
                      ELSE RunBlocksLastUnproduced(produced, pipeline, method, start, i + 1)
             fit == IF method = "fit" THEN FitBlock(run, pipeline, i) ELSE run
         IN CHOOSE done \in {Continue(produced) :
                                produced \in {Produce(fitted) : fitted \in {fit}}} : TRUE

\* A wrong loop: the blocks before start are not skipped.
RECURSIVE RunBlocksFromFirst(_, _, _, _, _)
RunBlocksFromFirst(run, pipeline, method, start, i) ==
    IF i > Len(pipeline.blocks) THEN run
    ELSE LET Produce(fitted) ==
                 IF fitted.error.type # "None" THEN fitted
                 ELSE ProduceBlock(fitted, pipeline, i)
             Continue(produced) ==
                 IF produced.error.type # "None" THEN produced
                 ELSE IF produced.has_outputs /\ produced.pending = {}
                      THEN [produced EXCEPT !.returned = TRUE]
                      ELSE RunBlocksFromFirst(produced, pipeline, method, start, i + 1)
             fit == IF method = "fit" THEN FitBlock(run, pipeline, i) ELSE run
         IN CHOOSE done \in {Continue(produced) :
                                produced \in {Produce(fitted) : fitted \in {fit}}} : TRUE

\* A wrong loop: the loop goes on to the last block after every requested
\* output has been captured.
RECURSIVE RunBlocksThrough(_, _, _, _, _)
RunBlocksThrough(run, pipeline, method, start, i) ==
    IF i > Len(pipeline.blocks)
    THEN [run EXCEPT !.returned = run.has_outputs /\ run.pending = {}]
    ELSE IF i < start THEN RunBlocksThrough(run, pipeline, method, start, i + 1)
    ELSE LET Produce(fitted) ==
                 IF fitted.error.type # "None" THEN fitted
                 ELSE ProduceBlock(fitted, pipeline, i)
             Continue(produced) ==
                 IF produced.error.type # "None" THEN produced
                 ELSE RunBlocksThrough(produced, pipeline, method, start, i + 1)
             fit == IF method = "fit" THEN FitBlock(run, pipeline, i) ELSE run
         IN CHOOSE done \in {Continue(produced) :
                                produced \in {Produce(fitted) : fitted \in {fit}}} : TRUE

\* The loop over the blocks: the blocks before start are skipped; a block
\* is fitted (in fit) and then produced; the loop is left as soon as every
\* requested output has been captured.
RECURSIVE RunBlocks(_, _, _, _, _)
RunBlocks(run, pipeline, method, start, i) ==
    IF i > Len(pipeline.blocks) THEN run
    ELSE IF i < start THEN RunBlocks(run, pipeline, method, start, i + 1)
    ELSE LET Produce(fitted) ==
                 IF fitted.error.type # "None" THEN fitted
                 ELSE ProduceBlock(fitted, pipeline, i)
             Continue(produced) ==
                 IF produced.error.type # "None" THEN produced
                 ELSE IF produced.has_outputs /\ produced.pending = {}
                      THEN [produced EXCEPT !.returned = TRUE]
                      ELSE RunBlocks(produced, pipeline, method, start, i + 1)
             fit == IF method = "fit" THEN FitBlock(run, pipeline, i) ELSE run
         IN CHOOSE done \in {Continue(produced) :
                                produced \in {Produce(fitted) : fitted \in {fit}}} : TRUE

\* What the call returns: nothing, a single output or a tuple of outputs.
Returned(run) ==
    IF run.error.type # "None" THEN [kind |-> "error", value |-> run.error.type]
    ELSE IF ~run.returned THEN [kind |-> "none", value |-> None]
    ELSE IF \E n \in DOMAIN run.outputs : run.outputs[n].kind = "error"
         THEN [kind |-> "error", value |-> "KeyError"]
         ELSE IF Len(run.outputs) > 1
              THEN [kind |-> "tuple", value |-> run.outputs]
              ELSE run.outputs[1]

\* A start_ that is the name of no block: the position found is 0.
UnknownBlock(first) == first = 0

\* A call of fit or predict: the run it makes and what it returns.
Execute(h, pipeline, method, context, start, output) ==
    LET has_outputs == method = "predict" \/ output.type # "none"
        output_variables == OutputVariables(h, pipeline, output)
        first == StartIndex(h, pipeline, start)
        Refused(new) ==
            [run |-> [new EXCEPT !.error = Raised("ValueError")],
             result |-> [kind |-> "error", value |-> "ValueError"]]
        Done(run) == [run |-> run, result |-> Returned(run)]
    IN CHOOSE call \in
          {IF UnknownBlock(first) \/ (has_outputs /\ Invalid \in Range(variables))
           THEN Refused(new)
           ELSE CHOOSE done \in {Done(run) :
                                    run \in {RunBlocks(new, pipeline, method, first, 1)}} : TRUE :
              variables \in {output_variables},
              new \in {NewRun(h, context, has_outputs, output_variables)}} : TRUE

\* MLPipeline.fit(X, y, output_, start_, **kwargs)
PipelineFit(h, pipeline, context, start, output) ==
    Execute(h, pipeline, "fit", context, start, output)

\* A wrong predict: the blocks are fitted on the way.
PipelinePredictFitting(h, pipeline, context, start, output) ==
    Execute(h, pipeline, "fit", context, start, output)

\* MLPipeline.predict(X, output_, start_, **kwargs)
PipelinePredict(h, pipeline, context, start, output) ==
    Execute(h, pipeline, "predict", context, start, output)

(***************************************************************************)
(* The reference executor: the blocks are walked in the declared order     *)
(* over a mapping threaded by hand.  Per block the declared arguments are  *)
(* read from the mapping, fit is called (in the fit pass only, when the     *)
(* primitive has a fit method), produce is called and the declared outputs *)
(* are written back.  It has no start_, no output_ and no capturing of     *)
(* outputs.  The walk ends at the first block whose arguments the mapping  *)
(* does not hold (exception None) or whose method raises; block and phase  *)
(* tell where.                                                             *)
(***************************************************************************)
RECURSIVE Reference(_, _, _, _, _)
Reference(h, pipeline, fitting, mapping, i) ==
    IF i > Len(pipeline.blocks)
    THEN [heap |-> h, mapping |-> mapping, failed |-> FALSE,
          block |-> 0, phase |-> None, exception |-> None]
    ELSE LET id == pipeline.blocks[i]
             annotation == Annotation(h[id].primitive)
             renamed_in == Get(pipeline.input_names, h[id].name, EmptyDict)
             renamed_out == Get(pipeline.output_names, h[id].name, EmptyDict)
             Read(args) == [a \in Range(args) |-> mapping[Get(renamed_in, a, a)]]
             Bound(args) == \A a \in Range(args) : Get(renamed_in, a, a) \in DOMAIN mapping
             Name(j) == Get(renamed_out, annotation.produce_output[j],
                            annotation.produce_output[j])
             fits == fitting /\ annotation.fit_method # None
             Fitted == IF fits
                       THEN [h[id] EXCEPT !.instance =
                                FitInstance(h[id], Read(annotation.fit_args))]
                       ELSE h[id]
             Failed(next, phase, exception) ==
                 [heap |-> next, mapping |-> mapping, failed |-> TRUE,
                  block |-> i, phase |-> phase, exception |-> exception]
             Written(produced) ==
                 [v \in {Name(j) : j \in DOMAIN produced} |->
                     produced[CHOOSE j \in DOMAIN produced :
                                 /\ Name(j) = v
                                 /\ \A l \in DOMAIN produced : Name(l) = v => l <= j]]
         IN IF fits /\ ~Bound(annotation.fit_args) THEN Failed(h, "fit", None)
            ELSE IF fits /\ Raises(h[id], "fit", Read(annotation.fit_args)) # None
            THEN Failed(h, "fit", Raises(h[id], "fit", Read(annotation.fit_args)))
            ELSE IF ~Bound(annotation.produce_args)
            THEN Failed([h EXCEPT ![id] = Fitted], "produce", None)
            ELSE IF Raises(h[id], "produce", Read(annotation.produce_args)) # None
            THEN Failed([h EXCEPT ![id] = Fitted], "produce",
                        Raises(h[id], "produce", Read(annotation.produce_args)))
            ELSE CHOOSE walk \in
                    {Reference(next, pipeline, fitting, threaded, i + 1) :
                        next \in {[h EXCEPT ![id] = fitted] : fitted \in {Fitted}},
                        threaded \in
                            {Update(mapping, Written(produced)) :
                                produced \in {ProduceOutputs(fitted, Read(annotation.produce_args)) :
                                                 fitted \in {Fitted}}}} : TRUE

\* The final output of the reference executor's produce pass: the declared
\* outputs of the last block, a bare value when there is exactly one.
ReferenceOutput(h, pipeline, mapping) ==
    LET pass == Reference(h, pipeline, FALSE, mapping, 1)
        final_block == h[pipeline.blocks[Len(pipeline.blocks)]]
        declared == Annotation(final_block.primitive).produce_output
        renamed_out == Get(pipeline.output_names, final_block.name, EmptyDict)
        Final(j) == [kind |-> "value",
                     value |-> pass.mapping[Get(renamed_out, declared[j], declared[j])]]
    IN IF pass.failed THEN [kind |-> "error", value |-> "TypeError"]
       ELSE IF Len(declared) = 1 THEN Final(1)
            ELSE [kind |-> "tuple", value |-> [j \in DOMAIN declared |-> Final(j)]]

(***************************************************************************)
(* The state machine.  A behaviour builds a pipeline and then calls its    *)
(* methods; last records the most recent call.  Two fields of last are     *)
(* history: expected holds, for a call with output_=k, what the same call  *)
(* without output_ gives on the same pipeline and data, for a call with    *)
(* the name of a block as output_, what the same call with the index of    *)
(* the block gives and, for a complete fit, the blocks as the reference    *)
(* executor fits them; origin carries                                      *)
(* the expected of the call before into the call that continues it: the    *)
(* call that resumes from the returned context, the predict that follows   *)
(* the fit, the predict that follows the set_hyperparameters that changed  *)
(* a fitted block, or the call that resumes once more from a context that  *)
(* the caller saved (expected then holds the context as it was returned).  *)
(***************************************************************************)
NoResult == [kind |-> "none", value |-> None]

NoExpected == [heap |-> EmptyDict, result |-> NoResult]

NoOrigin == [kind |-> "none", expected |-> NoExpected, k |-> 0]

NoCall == [op |-> "init", handle |-> None, seed |-> EmptyDict,
           start |-> NoneArg, output |-> NoneArg, result |-> NoResult,
           trace |-> <<>>, calls |-> <<>>, error |-> NoError, log |-> <<>>,
           context |-> EmptyDict, kwargs |-> EmptyDict,
           expected |-> NoExpected, origin |-> NoOrigin]

\* The primitive lists pipelines are built from.
RECURSIVE Lists(_)
Lists(n) ==
    IF n = 0 THEN {<<>>}
    ELSE Lists(n - 1) \cup
         {Append(l, p) : l \in {m \in Lists(n - 1) : Len(m) = n - 1}, p \in Primitives}

PrimitiveLists(n) == Lists(n) \ {<<>>}

\* The variables a caller passes to fit and predict: X and y, one of them
\* varied at a time.
Seeds ==
    {[v \in {"X", "y"} |-> IF v = "X" THEN x ELSE 0] : x \in Values}
        \cup {[v \in {"X", "y"} |-> IF v = "y" THEN y ELSE 0] : y \in Values}

\* One choice of these variables, for the scenarios in which the data do
\* not matter.
OneSeed == {seed \in Seeds : seed["X"] = 1}

\* The names of the blocks of a pipeline.
NamesOf(h, pipeline) == {h[id].name : id \in Range(pipeline.blocks)}

\* What the call about to be made is expected to agree with.
ExpectedOf(handle, method, seed, start, output) ==
    LET Same(call) == [heap |-> call.run.heap, result |-> call.result]
    IN IF start = NoneArg /\ output.type = "int"
       THEN CHOOSE whole \in
               {Same(call) : call \in {Execute(heap, pipes[handle], method, seed,
                                               NoneArg, NoneArg)}} : TRUE
       ELSE IF method = "fit" /\ start = NoneArg /\ output = NoneArg
            THEN [heap |-> Reference(heap, pipes[handle], TRUE, seed, 1).heap,
                  result |-> NoResult]
            ELSE IF start = NoneArg /\ output.type = "str"
                       /\ BlockIndex(heap, pipes[handle], output.value) # 0
                 THEN CHOOSE indexed \in
                         {Same(call) :
                             call \in {Execute(heap, pipes[handle], method, seed, NoneArg,
                                               IntArg(BlockIndex(heap, pipes[handle],
                                                                 output.value) - 1))}} : TRUE
                 ELSE NoExpected

\* How the call about to be made continues the one before it.
OriginOf(handle, method, seed, start, output) ==
    IF /\ last.handle = handle
       /\ last.op = method
       /\ last.result.kind = "context"
       /\ last.output.type = "int"
       /\ last.start = NoneArg
       /\ seed = last.result.value
       /\ start = IntArg(last.output.value + 1)
       /\ output = NoneArg
    THEN [kind |-> "resume", expected |-> last.expected, k |-> last.output.value]
    ELSE IF /\ last.handle = handle
            /\ last.op = "fit" /\ method = "predict"
            /\ last.start = NoneArg /\ last.output = NoneArg
            /\ last.result.kind = "none"
            /\ start = NoneArg /\ output = NoneArg
         THEN [kind |-> "fit", expected |-> last.expected, k |-> 0]
         ELSE IF /\ last.handle = handle
                 /\ last.op = "set_hyperparameters" /\ method = "predict"
                 /\ last.origin.kind = "discarded"
                 /\ start = NoneArg /\ output = NoneArg
              THEN [kind |-> "stale", expected |-> NoExpected, k |-> last.origin.k]
              ELSE IF /\ last.handle = handle
                      /\ \/ last.op = method /\ last.origin.kind \in {"resume", "reuse"}
                         \/ last.origin.kind = "saved"
                      /\ start.type = "int" /\ start = last.start
                      /\ seed = last.kwargs
                      /\ output = NoneArg
                   THEN [kind |-> "reuse",
                         expected |->
                             IF last.origin.kind = "resume"
                             THEN [heap |-> EmptyDict,
                                   result |-> [kind |-> "context", value |-> last.seed]]
                             ELSE last.origin.expected,
                         k |-> last.origin.k]
                   ELSE NoOrigin

\* A wrong call: the context is the caller's mapping itself, and the
\* caller finds in it what the blocks wrote.
CallerMappingShared(seed, run) == run.context

\* The mapping the caller passed as named arguments, as the caller finds
\* it after the call: the call works on a context of its own, made of the
\* values passed, so the caller's mapping is what it was.
CallerMapping(seed, run) == seed

\* A call of fit or predict and its record.
Call(handle, method, seed, start, output) ==
    /\ \E call \in {IF method = "fit"
                    THEN PipelineFit(heap, pipes[handle], seed, start, output)
                    ELSE PipelinePredict(heap, pipes[handle], seed, start, output)} :
          /\ heap' = call.run.heap
          /\ last' = [op |-> method, handle |-> handle, seed |-> seed,
                      start |-> start, output |-> output,
                      result |-> call.result, trace |-> call.run.trace,
                      calls |-> call.run.calls,
                      error |-> call.run.error, log |-> call.run.log,
                      context |-> call.run.context,
                      kwargs |-> CallerMapping(seed, call.run),
                      expected |-> ExpectedOf(handle, method, seed, start, output),
                      origin |-> OriginOf(handle, method, seed, start, output)]
    /\ UNCHANGED pipes

\* pipeline.fit(**seed, start_=start, output_=output)
Fit(handle, seeds, starts, outputs) ==
    \E seed \in seeds, start \in starts, output \in outputs :
        Call(handle, "fit", seed, start, output)

\* pipeline.predict(**seed, start_=start, output_=output)
Predict(handle, seeds, starts, outputs) ==
    \E seed \in seeds, start \in starts, output \in outputs :
        Call(handle, "predict", seed, start, output)

\* The hyperparameter dicts a caller may pass: one value for one
\* hyperparameter of one block, in the nested format.
NewValues(h, pipeline) ==
    LET settings == {x \in [id : Range(pipeline.blocks), name : {"with_mean", "max_depth"},
                            value : {0, 1, 10, 15}] :
                        /\ x.name \in DOMAIN Annotation(h[x.id].primitive).tunable
                        /\ x.value \in Annotation(h[x.id].primitive).tunable[x.name].values}
    IN {[b \in {h[x.id].name} |-> [n \in {x.name} |-> x.value]] : x \in settings}

\* pipeline.set_hyperparameters(hyperparameters)
SetHp(handle, hyperparameters, origin) ==
    /\ heap' = SetHyperparameters(heap, pipes[handle], hyperparameters)
    /\ last' = [NoCall EXCEPT !.op = "set_hyperparameters", !.handle = handle,
                              !.seed = hyperparameters, !.origin = origin]
    /\ UNCHANGED pipes

\* pipeline.set_hyperparameters(partial), in the nested (flat = FALSE) or
\* in the flat format.
SetSome(handle, formats) ==
    \E flat \in formats, hyperparameters \in NewValues(heap, pipes[handle]) :
        SetHp(handle, IF flat THEN FlattenDict(hyperparameters) ELSE hyperparameters,
              NoOrigin)

\* pipeline.set_hyperparameters(pipeline.get_hyperparameters(flat)); the
\* blocks as they are before the call are kept as what is expected after.
SetSame(handle) ==
    \E flat \in BOOLEAN :
        SetHp(handle, GetHyperparameters(heap, pipes[handle], flat),
              [kind |-> "same", expected |-> [heap |-> heap, result |-> NoResult],
               k |-> 0])

\* The remaps a pipeline is built with: none, or the last block reading its
\* first produce argument from the other variable while the first block
\* writes its first output under a new name.
Other(variable) == IF variable = "X" THEN "y" ELSE "X"

Remaps(primitives) ==
    LET names == BlockNames(primitives)
        first == names[1]
        final == names[Len(names)]
        arg == Annotation(primitives[Len(names)]).produce_args[1]
        out == Annotation(primitives[1]).produce_output[1]
    IN {[input_names |-> EmptyDict, output_names |-> EmptyDict],
        [input_names |-> [b \in {final} |-> [a \in {arg} |-> Other(arg)]],
         output_names |-> [b \in {first} |-> [o \in {out} |-> "Z"]]]}

\* The init_params a pipeline is built with: none, or another value than
\* the default for the hyperparameters of its first block, given under the
\* name of the block or, when no other block has this primitive, under the
\* name of the primitive.
InitParams(primitives) ==
    LET tunable == Annotation(primitives[1]).tunable
        params == [n \in DOMAIN tunable |->
                     CHOOSE v \in tunable[n].values : v # tunable[n].default]
        alone == \A o \in DOMAIN primitives \ {1} : primitives[o] # primitives[1]
        keys == {BlockNames(primitives)[1]} \cup (IF alone THEN {primitives[1]} ELSE {})
    IN IF DOMAIN tunable = {} THEN {EmptyDict}
       ELSE {EmptyDict} \cup {[k \in {key} |-> params] : key \in keys}

\* MLPipeline(primitives): a new pipeline under handle, alone on the heap.
Create(handle, lists) ==
    \E primitives \in lists :
        LET new == NewPipeline(EmptyDict, primitives, EmptyDict, EmptyDict,
                               EmptyDict, EmptyDict, EmptyDict)
        IN /\ heap' = new.heap
           /\ pipes' = [x \in {handle} |-> new.pipeline]
           /\ last' = [NoCall EXCEPT !.op = "create", !.handle = handle]

\* handle = MLPipeline.from_dict(source.to_dict()); the blocks of the
\* pipeline that handle named before, if any, are garbage.
Load(source, handle) ==
    LET garbage == IF handle \in DOMAIN pipes THEN Range(pipes[handle].blocks) ELSE {}
        kept == [id \in DOMAIN heap \ garbage |-> heap[id]]
        dict == ToDict(heap, pipes[source])
        loaded == FromDict(kept, dict)
    IN /\ heap' = loaded.heap
       /\ pipes' = [x \in DOMAIN pipes \cup {handle} |->
                       IF x = handle THEN loaded.pipeline ELSE pipes[x]]
       /\ last' = [NoCall EXCEPT !.op = "from_dict", !.handle = handle,
                                 !.result = [kind |-> "dict", value |-> dict]]

\* handle = MLPipeline(template.to_dict()), made once.
Copy(template, handle) ==
    /\ handle \notin DOMAIN pipes
    /\ Load(template, handle)

\* The sequences over S of length n.
RECURSIVE Tuples(_, _)
Tuples(S, n) ==
    IF n = 0 THEN {<<>>}
    ELSE {Append(t, x) : t \in Tuples(S, n - 1), x \in S}

\* The names of blocks a caller passes as output_.
Names(handle) == {StrArg(name) : name \in NamesOf(heap, pipes[handle])}

\* The '{block name}.{variable name}' strings a caller passes: for every
\* block, the variables X and y and the outputs of the block.
Dotted(handle) ==
    UNION {{heap[id].name \o <<".", v>> :
               v \in {"X", "y"} \cup Range(Annotation(heap[id].primitive).produce_output)} :
           id \in Range(pipes[handle].blocks)}

\* The lists of such strings a caller passes.
OutputLists(handle) ==
    UNION {{ListArg(l) : l \in Tuples(Dotted(handle), n)} : n \in 1 .. MaxList}

(***************************************************************************)
(* Spec: one pipeline, built from any primitive list, is fitted and used   *)
(* to predict, completely or up to block k (output_=k), and resumed from   *)
(* the returned context (start_=k+1).                                      *)
(***************************************************************************)
Init ==
    \E primitives \in PrimitiveLists(MaxBlocks) :
      \E remap \in Remaps(primitives) :
        LET new == NewPipeline(EmptyDict, primitives, EmptyDict, remap.input_names,
                               remap.output_names, EmptyDict, EmptyDict)
        IN /\ heap = new.heap
           /\ pipes = [handle \in {"pipeline"} |-> new.pipeline]
           /\ last = NoCall

Indexes(handle) == {IntArg(k) : k \in 0 .. (Len(pipes[handle].blocks) - 1)}

ReturnedContext == IF last.result.kind = "context" THEN {last.result.value} ELSE {}

Next ==
    \/ SetSome("pipeline", {FALSE})
    \/ Fit("pipeline", Seeds, {NoneArg}, {NoneArg} \cup Indexes("pipeline"))
    \/ Fit("pipeline", ReturnedContext, Indexes("pipeline"), {NoneArg})
    \/ Predict("pipeline", Seeds, {NoneArg}, {NoneArg} \cup Indexes("pipeline"))
    \/ Predict("pipeline", ReturnedContext, Indexes("pipeline"), {NoneArg})

Spec == Init /\ [][Next]_vars

(***************************************************************************)
(* Properties of Spec                                                      *)
(***************************************************************************)
\* C1: resumability.  A call with output_=k followed by a call that
\* resumes with start_=k+1 from the returned context gives what one call
\* without output_ gives: predict returns the same result, fit returns
\* nothing and leaves every block in the same fitted state.
C1_Resumable ==
    last.origin.kind = "resume" =>
        /\ last.result = last.origin.expected.result
        /\ last.op = "fit" => heap = last.origin.expected.heap

\* A predict of a fitted pipeline resumed after its first block.
C1_Witness ==
    /\ last.origin.kind = "resume"
    /\ last.op = "predict"
    /\ last.result.kind \in {"value", "tuple"}
    /\ \A id \in DOMAIN heap : heap[id].instance.fitted

\* C2: equivalence with the reference executor.  A complete fit followed
\* by a complete predict returns the final output of the reference
\* executor given the same primitives, hyperparameters and data.
C2_ReferenceEquivalent ==
    last.origin.kind = "fit" =>
        last.result = ReferenceOutput(last.origin.expected.heap,
                                      pipes[last.handle], last.seed)

\* A predict right after the fit of a pipeline of several blocks.
C2_Witness ==
    /\ last.origin.kind = "fit"
    /\ last.result.kind \in {"value", "tuple"}
    /\ Len(pipes[last.handle].blocks) > 1

(***************************************************************************)
(* SpecNames: pipelines are built from every primitive list.               *)
(***************************************************************************)
InitNames ==
    /\ heap = EmptyDict
    /\ pipes = EmptyDict
    /\ last = NoCall

NextNames == Create("pipeline", PrimitiveLists(MaxNamed))

SpecNames == InitNames /\ [][NextNames]_vars

\* The names of the blocks of a pipeline, in order.
NameList(handle) ==
    [i \in DOMAIN pipes[handle].blocks |-> heap[pipes[handle].blocks[i]].name]

\* C6: naming.  The block at position i is named '{primitive}#{n}' with n
\* the number of entries up to and including i that name the same
\* primitive, and the names of the blocks of a pipeline are pairwise
\* distinct.
C6_Naming ==
    \A handle \in DOMAIN pipes :
        LET primitives == pipes[handle].primitives
            names == NameList(handle)
            Occurrences(i) == {j \in 1 .. i : primitives[j] = primitives[i]}
        IN /\ DOMAIN names = DOMAIN primitives
           /\ \A i \in DOMAIN names :
                 names[i] = primitives[i]
                               \o <<"#", ToString(Cardinality(Occurrences(i)))>>
           /\ \A i, j \in DOMAIN names : i # j => names[i] # names[j]

\* A pipeline built from [A, A, B] with blocks named A#1, A#2, B#1.
C6_Witness ==
    /\ "pipeline" \in DOMAIN pipes
    /\ pipes["pipeline"].primitives = <<Scaler, Scaler, Classifier>>
    /\ NameList("pipeline") = <<Scaler \o <<"#", "1">>, Scaler \o <<"#", "2">>,
                                Classifier \o <<"#", "1">>>>

(***************************************************************************)
(* SpecConfig: one pipeline, built with or without init_params and remaps, *)
(* is configured, fitted, and loaded again from its dict representation.   *)
(***************************************************************************)
InitConfig ==
    \E primitives \in PrimitiveLists(MaxBlocks) :
      \E init_params \in InitParams(primitives), remap \in Remaps(primitives) :
        LET new == NewPipeline(EmptyDict, primitives, init_params, remap.input_names,
                               remap.output_names, EmptyDict, EmptyDict)
        IN /\ heap = new.heap
           /\ pipes = [handle \in {"pipeline"} |-> new.pipeline]
           /\ last = NoCall

NextConfig ==
    \/ SetSome("pipeline", BOOLEAN)
    \/ SetSame("pipeline")
    \/ Fit("pipeline", OneSeed, {NoneArg}, {NoneArg})
    \/ Load("pipeline", "loaded")

SpecConfig == InitConfig /\ [][NextConfig]_vars

\* C4: serialization round-trip.  The dict representation of the pipeline
\* loaded from a dict representation is that dict representation: the same
\* primitives, init_params, hyperparameters, tunable hyperparameters and
\* input and output names.
C4_RoundTrip ==
    last.op = "from_dict" =>
        ToDict(heap, pipes[last.handle]) = last.result.value

\* A pipeline with init_params, remaps and hyperparameters that were set
\* after construction is loaded from its dict representation.
C4_Witness ==
    /\ last.op = "from_dict"
    /\ last.result.value.init_params # EmptyDict
    /\ last.result.value.input_names # EmptyDict
    /\ Len(pipes["pipeline"].blocks) = 2
    /\ pipes["pipeline"].primitives[2] # pipes["pipeline"].primitives[1]
    /\ LET block == heap[pipes["pipeline"].blocks[2]]
       IN block.hyperparameters # DefaultHyperparameters(block.primitive)

\* C5: hyperparameter round-trip.  Setting the hyperparameters a pipeline
\* returns, in the flat or in the nested format, changes nothing: every
\* block has the values and the underlying object, fitted or not, that it
\* had before.
C5_SameHyperparameters ==
    last.origin.kind = "same" => heap = last.origin.expected.heap

\* The flat hyperparameters of a fitted pipeline, changed before, are set.
C5_Witness ==
    /\ last.origin.kind = "same"
    /\ \A key \in DOMAIN last.seed : IsFlatKey(key)
    /\ \E id \in Range(pipes[last.handle].blocks) :
          /\ heap[id].instance.fitted
          /\ heap[id].hyperparameters # DefaultHyperparameters(heap[id].primitive)

(***************************************************************************)
(* SpecCopy: a template is configured and copied twice through its dict    *)
(* representation; one of the copies is configured and fitted.             *)
(***************************************************************************)
InitCopy ==
    \E primitives \in PrimitiveLists(MaxCopyBlocks) :
        LET new == NewPipeline(EmptyDict, primitives, EmptyDict, EmptyDict,
                               EmptyDict, EmptyDict, EmptyDict)
        IN /\ heap = new.heap
           /\ pipes = [handle \in {"template"} |-> new.pipeline]
           /\ last = NoCall

NextCopy ==
    \/ DOMAIN pipes = {"template"} /\ SetSome("template", {FALSE})
    \/ Copy("template", "a")
    \/ Copy("template", "b")
    \/ "a" \in DOMAIN pipes /\ SetSome("a", BOOLEAN)
    \/ "a" \in DOMAIN pipes /\ Fit("a", OneSeed, {NoneArg}, {NoneArg})

SpecCopy == InitCopy /\ [][NextCopy]_vars

\* C3: copy isolation.  A set_hyperparameters or a fit of one pipeline
\* leaves every other pipeline built from the same template, and the
\* template, as they are: the same blocks with the same hyperparameters
\* and the same underlying objects.
C3_CopyIsolation ==
    [][last'.op \in {"set_hyperparameters", "fit"} =>
          \A other \in DOMAIN pipes \ {last'.handle} :
              /\ pipes'[other] = pipes[other]
              /\ \A id \in Range(pipes[other].blocks) : heap'[id] = heap[id]]_vars

\* One copy was given other hyperparameters and fitted while the other copy
\* and the template exist.
C3_Witness ==
    /\ {"a", "b"} \subseteq DOMAIN pipes
    /\ last.op = "fit" /\ last.handle = "a"
    /\ GetHyperparameters(heap, pipes["a"], TRUE)
          # GetHyperparameters(heap, pipes["template"], TRUE)
    /\ \E id \in Range(pipes["a"].blocks) : heap[id].instance.fitted
    /\ \A id \in Range(pipes["b"].blocks) \cup Range(pipes["template"].blocks) :
          ~heap[id].instance.fitted

(***************************************************************************)
(* SpecOut: one pipeline is fitted and used to predict with every form of  *)
(* output_: an index, the name of a block, a variable of a block, a list.  *)
(* A predict changes nothing, so a predict right after a predict reaches   *)
(* nothing that a single predict does not reach, and is left out.  The     *)
(* fits that are asked for outputs are given one choice of variables.      *)
(***************************************************************************)
InitOut ==
    \E primitives \in PrimitiveLists(MaxBlocks) :
        LET new == NewPipeline(EmptyDict, primitives, EmptyDict, EmptyDict,
                               EmptyDict, EmptyDict, EmptyDict)
        IN /\ heap = new.heap
           /\ pipes = [handle \in {"pipeline"} |-> new.pipeline]
           /\ last = NoCall

Outputs(handle) ==
    Indexes(handle) \cup Names(handle)
        \cup {StrArg(s) : s \in Dotted(handle)} \cup OutputLists(handle)

NextOut ==
    \/ Fit("pipeline", Seeds, {NoneArg}, {NoneArg})
    \/ Fit("pipeline", OneSeed, {NoneArg}, Outputs("pipeline"))
    \/ last.op # "predict" /\ Predict("pipeline", Seeds, {NoneArg}, Outputs("pipeline"))

SpecOut == InitOut /\ [][NextOut]_vars

\* The last call is a fit or a predict from the first block on.
FromTheFirst == last.op \in {"fit", "predict"} /\ last.start = NoneArg

\* The steps of a run of the last call's method through the first k blocks.
ThroughBlock(k) ==
    IF last.op = "fit"
    THEN [n \in 1 .. 2 * k |-> <<(n + 1) \div 2, IF n % 2 = 1 THEN "fit" ELSE "produce">>]
    ELSE [n \in 1 .. k |-> <<n, "produce">>]

\* The context right after block k produced in the last call: the variables
\* passed and the outputs of the first k blocks, as the reference executor
\* threads them.  (A fit learns from its arguments alone, so the blocks as
\* they are after the call give what they gave in it.)
ContextAfter(k) ==
    LET pipeline == pipes[last.handle]
    IN Reference(heap, [pipeline EXCEPT !.blocks = SubSeq(@, 1, k)],
                 last.op = "fit", last.seed, 1).mapping

\* The block and the variable that the string '{block name}.{variable}'
\* names.
EntryBlock(s) ==
    CHOOSE i \in DOMAIN pipes[last.handle].blocks :
        s = heap[pipes[last.handle].blocks[i]].name \o <<".", s[Len(s)]>>

EntryVariable(s) == s[Len(s)]

\* The values a call returned, in order.
ReturnedValues == IF last.result.kind = "tuple" THEN last.result.value ELSE <<last.result>>

\* The blocks the last call executed.
Executed == {last.trace[n][1] : n \in DOMAIN last.trace}

\* C7: output_ given as the index k of a block or as the name of that block
\* runs the blocks up to and including it and no later block, and returns
\* the whole context as it is after that block produced; both forms give
\* the same.
C7_WholeContext ==
    FromTheFirst /\ last.output.type \in {"int", "str"} =>
        LET k == IF last.output.type = "int" THEN last.output.value + 1
                 ELSE BlockIndex(heap, pipes[last.handle], last.output.value)
        IN k # 0 =>
              /\ last.trace = ThroughBlock(k)
              /\ last.result = [kind |-> "context", value |-> ContextAfter(k)]
              /\ {"X", "y"} \subseteq DOMAIN last.result.value
              /\ last.output.type = "str" =>
                    /\ last.result = last.expected.result
                    /\ heap = last.expected.heap

\* A fit through the first of two blocks, asked for by the name of the block.
C7_Witness ==
    /\ FromTheFirst /\ last.op = "fit"
    /\ last.output.type = "str"
    /\ Len(pipes[last.handle].blocks) = 2
    /\ BlockIndex(heap, pipes[last.handle], last.output.value) = 1
    /\ last.result.kind = "context"
    /\ Executed = {1}

\* The last call asked for one variable of one block.
OneVariable ==
    /\ FromTheFirst
    /\ last.output.type = "str"
    /\ BlockIndex(heap, pipes[last.handle], last.output.value) = 0

\* C8: output_ = '{block name}.{variable name}' runs the blocks up through
\* the named block and no later block, and returns only the value the
\* context holds under that variable right after that block produced.
C8_OneVariable ==
    OneVariable =>
        LET k == EntryBlock(last.output.value)
        IN /\ last.trace = ThroughBlock(k)
           /\ last.result = [kind |-> "value",
                             value |-> ContextAfter(k)[EntryVariable(last.output.value)]]

\* A predict asked for a variable of the first of two blocks.
C8_Witness ==
    /\ OneVariable /\ last.op = "predict"
    /\ Len(pipes[last.handle].blocks) = 2
    /\ EntryBlock(last.output.value) = 1
    /\ last.result.kind = "value"
    /\ Executed = {1}

\* The last call asked for a list of variables of blocks.
ListOfVariables == FromTheFirst /\ last.output.type = "list"

\* The blocks the entries of the list name.
EntryBlocks == {EntryBlock(last.output.value[n]) : n \in DOMAIN last.output.value}

\* The latest of the blocks the entries of the list name.
LatestEntryBlock == CHOOSE k \in EntryBlocks : \A o \in EntryBlocks : o <= k

\* The values are returned in the order the list asks for them.
InOrderRequested ==
    /\ Len(ReturnedValues) = Len(last.output.value)
    /\ \A n \in DOMAIN last.output.value :
          ReturnedValues[n] =
              [kind |-> "value",
               value |-> ContextAfter(EntryBlock(last.output.value[n]))
                            [EntryVariable(last.output.value[n])]]

C10_EveryEntry ==
    ListOfVariables /\ Cardinality(EntryBlocks) > 1 =>
        /\ EntryBlocks \subseteq Executed
        /\ Executed = 1 .. LatestEntryBlock
        /\ last.result.kind = "tuple"
        /\ DOMAIN last.result.value = DOMAIN last.output.value
        /\ \A n \in DOMAIN last.output.value :
              LET entry == last.output.value[n]
              IN last.result.value[n].value
                    = ContextAfter(EntryBlock(entry))[EntryVariable(entry)]

\* The same variable asked for after two blocks, later block first, with
\* two different values.
C10_Witness ==
    /\ ListOfVariables
    /\ Len(last.output.value) = 2
    /\ EntryBlock(last.output.value[1]) = 2
    /\ EntryBlock(last.output.value[2]) = 1
    /\ EntryVariable(last.output.value[1]) = EntryVariable(last.output.value[2])
    /\ last.result.kind = "tuple"
    /\ last.result.value[1].value # last.result.value[2].value

(***************************************************************************)
(* Further properties of Spec                                              *)
(***************************************************************************)
\* The last call is a predict without output_.
PredictDefault == last.op = "predict" /\ last.output = NoneArg

\* The position of the first block the last call executed.
FirstBlock == StartIndex(heap, pipes[last.handle], last.start)

\* The context at the end of the last call, a predict: the variables passed
\* with the outputs of the blocks from the first one executed on, as the
\* reference executor threads them.
FinalContext == Reference(heap, pipes[last.handle], FALSE, last.seed, FirstBlock).mapping

\* The variables the last block of the pipeline declares as its outputs,
\* under the names they are given in the context.
DeclaredOutputs ==
    LET pipeline == pipes[last.handle]
        block == heap[pipeline.blocks[Len(pipeline.blocks)]]
        declared == Annotation(block.primitive).produce_output
        renamed == Get(pipeline.output_names, block.name, EmptyDict)
    IN [j \in DOMAIN declared |-> Get(renamed, declared[j], declared[j])]

\* C11: without output_, predict runs through the last block and returns
\* what the last block declares as its output, the bare value when it
\* declares exactly one, and never the whole context.
C11_LastBlockOutput ==
    PredictDefault =>
        /\ last.trace = [n \in 1 .. (Len(pipes[last.handle].blocks) + 1 - FirstBlock) |->
                            <<FirstBlock + n - 1, "produce">>]
        /\ last.result.kind # "context"
        /\ Len(DeclaredOutputs) = 1 =>
              last.result = [kind |-> "value", value |-> FinalContext[DeclaredOutputs[1]]]
        /\ Len(DeclaredOutputs) > 1 =>
              last.result = [kind |-> "tuple",
                             value |-> [j \in DOMAIN DeclaredOutputs |->
                                          [kind |-> "value",
                                           value |-> FinalContext[DeclaredOutputs[j]]]]]

\* A predict without output_ of two blocks, the last of them declaring one
\* output, returned a bare value.
C11_Witness ==
    /\ PredictDefault /\ last.start = NoneArg
    /\ Len(pipes[last.handle].blocks) = 2
    /\ Len(DeclaredOutputs) = 1
    /\ last.result.kind = "value"
    /\ Len(last.trace) = 2

\* C12: a predict, whatever its start_ and output_, invokes the fit of no
\* block and leaves every block as it is, hyperparameters and underlying
\* object; only produce steps are run.
C12_PredictProducesOnly ==
    [][last'.op = "predict" =>
          /\ heap' = heap
          /\ \A n \in DOMAIN last'.trace : last'.trace[n][2] = "produce"]_vars

\* A predict of a fitted pipeline resumed with start_ ran a block.
C12_Witness ==
    /\ last.op = "predict"
    /\ last.start.type = "int"
    /\ last.trace # <<>>
    /\ \A id \in DOMAIN heap : heap[id].instance.fitted

\* The block at position k of the pipeline of the last call.
BlockAt(k) == heap[pipes[last.handle].blocks[k]]

\* The arguments that the method of invocation n of the last call declares.
DeclaredArgs(n) ==
    LET annotation == Annotation(BlockAt(last.calls[n].block).primitive)
    IN IF last.calls[n].phase = "fit" THEN Range(annotation.fit_args)
       ELSE Range(annotation.produce_args)

\* The context name under which the block at position k reads argument a.
InputName(k, a) ==
    Get(Get(pipes[last.handle].input_names, BlockAt(k).name, EmptyDict), a, a)

\* The context name under which the block at position k writes output o.
OutputName(k, o) ==
    Get(Get(pipes[last.handle].output_names, BlockAt(k).name, EmptyDict), o, o)

\* The invocations before invocation n whose produce wrote the name.
Writers(name, n) ==
    {p \in 1 .. (n - 1) : name \in DOMAIN last.calls[p].written}

\* The value most recently written under the name before invocation n: the
\* output of the latest earlier block that produced it or, when no block
\* did, the value the caller passed.
LatestValue(name, n) ==
    IF Writers(name, n) = {} THEN last.seed[name]
    ELSE LET p == CHOOSE w \in Writers(name, n) : \A o \in Writers(name, n) : o <= w
         IN last.calls[p].written[name]

\* C24: every argument a block receives is the value most recently written
\* to the context name the argument is read from, the caller's value or the
\* output of the latest earlier block that produced the name; an output
\* replaces the value the context held under its name, so that the context
\* at the end holds the latest value of every name.
C24_LatestValue ==
    last.op \in {"fit", "predict"} =>
        /\ \A n \in DOMAIN last.calls :
              /\ DOMAIN last.calls[n].kwargs = DeclaredArgs(n)
              /\ \A a \in DeclaredArgs(n) :
                    last.calls[n].kwargs[a] =
                        LatestValue(InputName(last.calls[n].block, a), n)
        /\ \A name \in DOMAIN last.context :
              last.context[name] = LatestValue(name, Len(last.calls) + 1)

\* The second block read a name that the caller passed and that the first
\* block produced, with another value: it received the value produced.
C24_Witness ==
    /\ last.op = "predict" /\ last.error = NoError
    /\ \E n \in DOMAIN last.calls : \E a \in DeclaredArgs(n) :
          LET name == InputName(last.calls[n].block, a)
          IN /\ last.calls[n].block = 2
             /\ name \in DOMAIN last.seed
             /\ Writers(name, n) # {}
             /\ last.calls[n].kwargs[a] # last.seed[name]

\* The arguments of every invocation of the last call were read from the
\* context under the names that input_names give them, the argument's own
\* name when it has no entry.
ReadRemapped ==
    \A n \in DOMAIN last.calls :
        \A a \in DeclaredArgs(n) :
            last.calls[n].kwargs[a] =
                last.calls[n].context[InputName(last.calls[n].block, a)]

\* Every produce of the last call that returned wrote the outputs the
\* primitive returned, each under the name that output_names gives it, its
\* own name when it has no entry, and nothing else.
WroteRemapped ==
    \A n \in DOMAIN last.calls :
        LET k == last.calls[n].block
            declared == Annotation(BlockAt(k).primitive).produce_output
            returned == ProduceOutputs(BlockAt(k), last.calls[n].kwargs)
        IN IF last.calls[n].phase = "fit" \/ (n = Len(last.calls) /\ last.log # <<>>)
           THEN last.calls[n].written = EmptyDict
           ELSE /\ DOMAIN last.calls[n].written =
                      {OutputName(k, declared[j]) : j \in DOMAIN declared}
                /\ \A j \in DOMAIN declared :
                      last.calls[n].written[OutputName(k, declared[j])] = returned[j]

\* The context of the last call changed only by what the invocations wrote:
\* it started as the variables passed, every invocation found it as the one
\* before left it, and it ended as the last one left it.
OnlyWritten ==
    /\ \A n \in DOMAIN last.calls :
          last.calls[n].context =
              IF n = 1 THEN last.seed
              ELSE Update(last.calls[n - 1].context, last.calls[n - 1].written)
    /\ last.context =
          IF last.calls = <<>> THEN last.seed
          ELSE Update(last.calls[Len(last.calls)].context,
                      last.calls[Len(last.calls)].written)

\* C27: a block reads each argument from the context under the name its
\* input remap gives the argument and writes each output under the name its
\* output remap gives the output, a name without a remap entry standing for
\* itself; it writes no other name; and no call changes the remap tables
\* of a pipeline.
C27_Remaps ==
    /\ [](last.op \in {"fit", "predict"} =>
             ReadRemapped /\ WroteRemapped /\ OnlyWritten)
    /\ [][\A handle \in DOMAIN pipes :
             /\ handle \in DOMAIN pipes'
             /\ pipes'[handle].input_names = pipes[handle].input_names
             /\ pipes'[handle].output_names = pipes[handle].output_names]_vars

\* A fitted pipeline of two blocks with remaps predicted: the first block
\* wrote its output under the remapped name and left the name it declares
\* alone, the second read its argument from the remapped name, which held
\* another value than the argument's own name.
C27_Witness ==
    /\ last.op = "predict" /\ last.error = NoError
    /\ pipes[last.handle].input_names # EmptyDict
    /\ Len(last.calls) = 2
    /\ DOMAIN last.calls[1].written = {"Z"}
    /\ \E a \in DeclaredArgs(2) :
          /\ InputName(2, a) # a
          /\ last.calls[2].context[InputName(2, a)] # last.calls[2].context[a]
          /\ last.calls[2].kwargs[a] = last.calls[2].context[InputName(2, a)]
    /\ \A id \in DOMAIN heap : heap[id].instance.fitted

(***************************************************************************)
(* SpecSteps: one pipeline of text primitives and a classifier is fitted   *)
(* and used to predict, with data on which a primitive raises, with        *)
(* variables missing (fit(X) alone), from a later block on (start_), up to *)
(* an earlier block (output_), and with start_ and output_ that name no    *)
(* block.  A predict changes nothing, so a predict right after a predict   *)
(* is left out.                                                            *)
(***************************************************************************)
StepPrimitives == {TextCleaner, StringVectorizer, Classifier}

StepLists == UNION {Tuples(StepPrimitives, n) : n \in 1 .. MaxBlocks}

InitSteps ==
    \E primitives \in StepLists :
        LET new == NewPipeline(EmptyDict, primitives, EmptyDict, EmptyDict,
                               EmptyDict, EmptyDict, EmptyDict)
        IN /\ heap = new.heap
           /\ pipes = [handle \in {"pipeline"} |-> new.pipeline]
           /\ last = NoCall

\* The variables of a call that passes X alone.
OnlyX == {[v \in {"X"} |-> x] : x \in Values}

\* A name built like the name of a block that the pipeline does not have:
\* its first primitive with a counter that no block has.
UnknownName(handle) ==
    BlockName(pipes[handle].primitives[1], Len(pipes[handle].blocks) + 1)

\* The start_ arguments that name no block: a name built like a block name,
\* and a word.
UnknownStarts(handle) == {StrArg(UnknownName(handle)), StrArg(<<"block">>)}

\* The output_ arguments that name no block: a name built like a block
\* name, and a variable of it.  A word (no dot) is the name of a variable.
UnknownOutputs(handle) ==
    {StrArg(UnknownName(handle)), StrArg(UnknownName(handle) \o <<".", "X">>)}

Words == {StrArg(<<"block">>)}

NextSteps ==
    \/ Fit("pipeline", Seeds \cup OnlyX, {NoneArg},
           {NoneArg} \cup Indexes("pipeline") \cup UnknownOutputs("pipeline") \cup Words)
    \/ Fit("pipeline", OneSeed,
           Indexes("pipeline") \cup Names("pipeline") \cup UnknownStarts("pipeline"),
           {NoneArg})
    \/ /\ last.op # "predict"
       /\ Predict("pipeline", Seeds \cup OnlyX, {NoneArg},
                  {NoneArg} \cup Indexes("pipeline") \cup UnknownOutputs("pipeline") \cup Words)
    \/ /\ last.op # "predict"
       /\ Predict("pipeline", OneSeed,
                  Indexes("pipeline") \cup Names("pipeline") \cup UnknownStarts("pipeline"),
                  {NoneArg})

SpecSteps == InitSteps /\ [][NextSteps]_vars

\* The last call is a fit or a predict whose start_ names a block (or is
\* omitted) and whose output_ is omitted or the index of a block.
Walked ==
    /\ last.op \in {"fit", "predict"}
    /\ FirstBlock # 0
    /\ last.output.type \in {"none", "int"}

\* The position of the last block the last call is to execute.
FinalBlock ==
    IF last.output.type = "int" THEN last.output.value + 1
    ELSE Len(pipes[last.handle].blocks)

\* The steps of a run of the last call's method over the blocks from
\* position first through position final: per block the fit, if the call
\* is a fit and the primitive has a fit method, and then the produce.
Steps(first, final) ==
    LET all == [n \in 1 .. 2 * (final + 1 - first) |->
                   <<first + ((n - 1) \div 2), IF n % 2 = 1 THEN "fit" ELSE "produce">>]
        Taken(step) ==
            \/ step[2] = "produce"
            \/ last.op = "fit" /\ Annotation(BlockAt(step[1]).primitive).fit_method # None
    IN SelectSeq(all, Taken)

\* What walking the blocks of the last call by hand gives: the reference
\* executor over the blocks from the first through the final one.
Walk ==
    LET pipeline == pipes[last.handle]
    IN Reference(heap, [pipeline EXCEPT !.blocks = SubSeq(@, 1, FinalBlock)],
                 last.op = "fit", last.seed, FirstBlock)

\* C13: in a fit, every block from the start_ block through the output_
\* block (the last block without output_) has its fit invoked, if its
\* primitive has one, and then its produce, in this order, the final block
\* included, and no other step is made; every fitted block holds what its
\* fit learned.
C13_FitThenProduce ==
    Walked /\ last.op = "fit" /\ last.error = NoError =>
        /\ last.trace = Steps(FirstBlock, FinalBlock)
        /\ <<FinalBlock, "produce">> \in Range(last.trace)
        /\ \A k \in FirstBlock .. FinalBlock :
              Annotation(BlockAt(k).primitive).fit_method # None =>
                  BlockAt(k).instance.fitted
        /\ heap = Walk.heap

\* A fit without output_ of a cleaner (no fit method) and a classifier:
\* three steps, the last of them the produce of the classifier.
C13_Witness ==
    /\ Walked /\ last.op = "fit" /\ last.error = NoError
    /\ last.start = NoneArg /\ last.output = NoneArg
    /\ pipes[last.handle].primitives = <<TextCleaner, Classifier>>
    /\ last.trace = <<<<1, "produce">>, <<2, "fit">>, <<2, "produce">>>>

PrimitiveRaised == Walked /\ Walk.failed /\ Walk.exception # None

\* The call whose block raised ended right there: the steps made are those
\* of the blocks before it and of the failing block up to the call that
\* raised, made once; the call returns the exception; the context holds
\* what the blocks that completed put into it, and the blocks fitted before
\* stay fitted.
Aborted ==
    /\ last.result = [kind |-> "error", value |-> Walk.exception]
    /\ last.trace =
          Steps(FirstBlock, Walk.block - 1)
              \o (IF Walk.phase = "produce" /\ <<Walk.block, "fit">> \in Range(Steps(Walk.block, Walk.block))
                  THEN <<<<Walk.block, "fit">>>> ELSE <<>>)
              \o <<<<Walk.block, Walk.phase>>>>
    /\ last.context = Walk.mapping
    /\ heap = Walk.heap

ReferencesBlock(s) ==
    \E name \in NamesOf(heap, pipes[last.handle]) :
        \/ s = name
        \/ /\ Len(s) = Len(name) + 2
           /\ SubSeq(s, 1, Len(name)) = name
           /\ s[Len(name) + 1] = "." /\ s[Len(name) + 2] # "."

\* The last call was given a start_ that names no block, or an output_
\* with a dot in it (as every name built like a block name has) that names
\* no block and no variable of a block.
UnknownReference ==
    /\ last.op \in {"fit", "predict"}
    /\ \/ last.start.type = "str" /\ ~ReferencesBlock(last.start.value)
       \/ /\ last.output.type = "str"
          /\ "." \in Range(last.output.value)
          /\ ~ReferencesBlock(last.output.value)

\* C19: a fit or predict whose start_ or output_ references a block that
\* the pipeline does not have fails with ValueError before the fit or the
\* produce of any block is invoked: no step is made and every block is left
\* as it was.  (An output_ without a dot that is no block name is the name
\* of a variable, not a reference to a block.)
C19_UnknownBlock ==
    [][UnknownReference' =>
          /\ last'.result = [kind |-> "error", value |-> "ValueError"]
          /\ last'.trace = <<>>
          /\ heap' = heap]_vars

\* A fit asked for a variable of a block that the pipeline does not have,
\* after the pipeline was fitted: ValueError, no step.
C19_Witness ==
    /\ UnknownReference /\ last.op = "fit"
    /\ last.output = StrArg(UnknownName(last.handle) \o <<".", "X">>)
    /\ last.result = [kind |-> "error", value |-> "ValueError"]
    /\ last.trace = <<>>
    /\ \E id \in DOMAIN heap : heap[id].instance.fitted

(***************************************************************************)
(* SpecHp: one pipeline, built with or without init_params from scalers,   *)
(* class encoders (no hyperparameters) and boosters (two hyperparameters), *)
(* is given partial hyperparameters, of one or of two entries, in the      *)
(* nested or in the flat format, and fitted.                               *)
(***************************************************************************)
HpPrimitives == {Scaler, Encoder, Booster}

HpLists == UNION {Tuples(HpPrimitives, n) : n \in 1 .. MaxBlocks}

InitHp ==
    \E primitives \in HpLists :
      \E init_params \in InitParams(primitives) :
        LET new == NewPipeline(EmptyDict, primitives, init_params, EmptyDict,
                               EmptyDict, EmptyDict, EmptyDict)
        IN /\ heap = new.heap
           /\ pipes = [handle \in {"pipeline"} |-> new.pipeline]
           /\ last = NoCall

\* The (block name, hyperparameter name, value) entries a caller may give.
Entries(h, pipeline) ==
    UNION {UNION {{<<h[id].name, n, v>> :
                      v \in Annotation(h[id].primitive).tunable[n].values} :
                  n \in DOMAIN Annotation(h[id].primitive).tunable} :
           id \in Range(pipeline.blocks)}

\* The hyperparameter dicts of one or two entries, in the flat format.
PartialValues(h, pipeline) ==
    LET entries == Entries(h, pipeline)
        chosen == {<<x, y>> \in entries \X entries :
                      x = y \/ <<x[1], x[2]>> # <<y[1], y[2]>>}
    IN {[k \in {<<c[1][1], c[1][2]>>, <<c[2][1], c[2][2]>>} |->
            IF k = <<c[1][1], c[1][2]>> THEN c[1][3] ELSE c[2][3]] : c \in chosen}

\* The same values as a flat dict, in the nested format.
Nested(flat) ==
    [b \in {k[1] : k \in DOMAIN flat} |->
        [n \in {k[2] : k \in {f \in DOMAIN flat : f[1] = b}} |-> flat[<<b, n>>]]]

\* pipeline.set_hyperparameters(partial), nested or flat.
SetPartial(handle) ==
    \E flat \in PartialValues(heap, pipes[handle]), nested \in BOOLEAN :
        SetHp(handle, IF nested THEN Nested(flat) ELSE flat, NoOrigin)

NextHp ==
    \/ SetPartial("pipeline")
    \/ Fit("pipeline", OneSeed, {NoneArg}, {NoneArg})

SpecHp == InitHp /\ [][NextHp]_vars

\* The value that the hyperparameters given to the last call, flat or
\* nested, hold for hyperparameter n of block b: a set of one value, or the
\* empty set when they hold none.
Supplied(b, n) ==
    LET given == last.seed
    IN IF <<b, n>> \in DOMAIN given THEN {given[<<b, n>>]}
       ELSE IF b \in DOMAIN given
            THEN (IF n \in DOMAIN given[b] THEN {given[b][n]} ELSE {})
            ELSE {}

\* The block called b is named in the hyperparameters given to the last
\* call.
NamedIn(b) ==
    \/ b \in DOMAIN last.seed
    \/ \E k \in DOMAIN last.seed : IsFlatKey(k) /\ k[1] = b

\* C14: set_hyperparameters with a partial mapping changes the entries it
\* is given and nothing else: every other hyperparameter of a block that is
\* named keeps its value, and a block that is not named keeps its values
\* and its underlying object, fitted or not.
C14_OnlySupplied ==
    [][last'.op = "set_hyperparameters" =>
          \A id \in Range(pipes[last'.handle].blocks) :
              /\ DOMAIN heap'[id].hyperparameters = DOMAIN heap[id].hyperparameters
              /\ \A n \in DOMAIN heap[id].hyperparameters :
                    heap'[id].hyperparameters[n] \in
                        (IF Supplied(heap[id].name, n)' # {}
                         THEN Supplied(heap[id].name, n)'
                         ELSE {heap[id].hyperparameters[n]})
              /\ ~NamedIn(heap[id].name)' => heap'[id] = heap[id]]_vars

\* A fitted scaler followed by a booster whose learning rate was changed
\* before: the depth of the booster alone was set; the learning rate has
\* the value it had and the scaler is still fitted.
C14_Witness ==
    /\ last.op = "set_hyperparameters"
    /\ pipes[last.handle].primitives = <<Scaler, Booster>>
    /\ DOMAIN last.seed = {BlockName(Booster, 1)}
    /\ DOMAIN last.seed[BlockName(Booster, 1)] = {"max_depth"}
    /\ BlockAt(2).hyperparameters = [h \in {"max_depth", "learning_rate"} |->
                                        IF h = "max_depth" THEN 4 ELSE 3]
    /\ BlockAt(1).instance.fitted
    /\ ~BlockAt(2).instance.fitted

\* C15: the nested hyperparameters have exactly one key per block name;
\* the flat ones hold the key (block name, hyperparameter name) with a
\* value exactly when the nested ones hold the value under the block name
\* and the hyperparameter name; and setting the same values in the flat or
\* in the nested format gives the same blocks.
C15_FlatNested ==
    \A handle \in DOMAIN pipes :
        LET pipeline == pipes[handle]
            names == {heap[id].name : id \in Range(pipeline.blocks)}
            nested == GetHyperparameters(heap, pipeline, FALSE)
            flat == GetHyperparameters(heap, pipeline, TRUE)
            params == {"with_mean", "max_depth", "learning_rate"}
        IN /\ DOMAIN nested = names
           /\ Cardinality(DOMAIN nested) = Len(pipeline.blocks)
           /\ \A k \in DOMAIN flat : Len(k) = 2 /\ k[1] \in names /\ k[2] \in params
           /\ \A b \in names, n \in params :
                 /\ <<b, n>> \in DOMAIN flat <=> n \in DOMAIN nested[b]
                 /\ <<b, n>> \in DOMAIN flat => flat[<<b, n>>] = nested[b][n]
           /\ \A values \in PartialValues(heap, pipeline) :
                 SetHyperparameters(heap, pipeline, values)
                     = SetHyperparameters(heap, pipeline, Nested(values))

\* Two boosters, fitted, with values set in the flat format: two keys in
\* the nested hyperparameters, four in the flat ones.
C15_Witness ==
    /\ last.op = "set_hyperparameters"
    /\ \A k \in DOMAIN last.seed : IsFlatKey(k)
    /\ pipes[last.handle].primitives = <<Booster, Booster>>
    /\ Cardinality(DOMAIN GetHyperparameters(heap, pipes[last.handle], FALSE)) = 2
    /\ Cardinality(DOMAIN GetHyperparameters(heap, pipes[last.handle], TRUE)) = 4
    /\ BlockAt(1).hyperparameters # BlockAt(2).hyperparameters

\* C16: an init_params entry under the bare name of a primitive that has
\* exactly one block in the pipeline is applied to that block at
\* construction, and gives the block the hyperparameters that the same
\* entry under '{primitive}#1' gives it.
C16_BareName ==
    last.op = "init" =>
        \A handle \in DOMAIN pipes :
            LET pipeline == pipes[handle]
                primitives == pipeline.primitives
                Blocks(p) == {i \in DOMAIN primitives : primitives[i] = p}
            IN \A p \in DOMAIN pipeline.init_params \cap Range(primitives) :
                  Cardinality(Blocks(p)) = 1 =>
                      LET i == CHOOSE j \in Blocks(p) : TRUE
                          entry == pipeline.init_params[p]
                          numbered == NewPipeline(EmptyDict, primitives,
                                                  [k \in {p \o <<"#", "1">>} |-> entry],
                                                  EmptyDict, EmptyDict, EmptyDict, EmptyDict)
                      IN /\ \A n \in DOMAIN entry :
                               heap[pipeline.blocks[i]].hyperparameters[n] = entry[n]
                         /\ heap[pipeline.blocks[i]].hyperparameters
                               = numbered.heap[numbered.pipeline.blocks[i]].hyperparameters

\* A booster and a scaler built with init_params under the bare name of the
\* booster: the booster has the values given, not its defaults.
C16_Witness ==
    /\ last.op = "init"
    /\ "pipeline" \in DOMAIN pipes
    /\ pipes["pipeline"].primitives = <<Booster, Scaler>>
    /\ DOMAIN pipes["pipeline"].init_params = {Booster}
    /\ heap[pipes["pipeline"].blocks[1]].hyperparameters
          = [h \in {"max_depth", "learning_rate"} |-> IF h = "max_depth" THEN 4 ELSE 3]

(***************************************************************************)
(* SpecStale: one pipeline is fitted, a hyperparameter of a fitted block   *)
(* is given another value, and the pipeline is used to predict without     *)
(* being fitted again.                                                     *)
(***************************************************************************)
InitStale ==
    \E primitives \in PrimitiveLists(MaxBlocks) :
        LET new == NewPipeline(EmptyDict, primitives, EmptyDict, EmptyDict,
                               EmptyDict, EmptyDict, EmptyDict)
        IN /\ heap = new.heap
           /\ pipes = [handle \in {"pipeline"} |-> new.pipeline]
           /\ last = NoCall

\* pipeline.set_hyperparameters(new) with another value than the current
\* one for a hyperparameter of a block that was fitted; k is the position
\* of that block.
Reconfigure(handle) ==
    \E hyperparameters \in NewValues(heap, pipes[handle]) :
        \E k \in DOMAIN pipes[handle].blocks :
            LET block == heap[pipes[handle].blocks[k]]
            IN /\ block.instance.fitted
               /\ block.name \in DOMAIN hyperparameters
               /\ \E n \in DOMAIN hyperparameters[block.name] :
                     hyperparameters[block.name][n] # block.hyperparameters[n]
               /\ SetHp(handle, hyperparameters,
                        [kind |-> "discarded", expected |-> NoExpected, k |-> k])

NextStale ==
    \/ Fit("pipeline", Seeds, {NoneArg}, {NoneArg})
    \/ Reconfigure("pipeline")
    \/ Predict("pipeline", Seeds \cup OnlyX, {NoneArg}, {NoneArg})

SpecStale == InitStale /\ [][NextStale]_vars

\* C20: a predict that follows, without a fit in between, the change of a
\* hyperparameter of a fitted block fits nothing and is not refused for the
\* block being unfitted: the object constructed anew is unfitted before the
\* predict and after it, the only error is an argument that the Context
\* does not bind, the produce of that block runs whenever the walk gets
\* past it, and a walk that completes returns what the blocks as they are,
\* the unfitted one among them, produce.
C20_UnfittedProduce ==
    last.origin.kind = "stale" =>
        LET k == last.origin.k
            blocks == DOMAIN pipes[last.handle].blocks
        IN /\ BlockAt(k).instance = NewInstance
           /\ \A n \in DOMAIN last.trace : last.trace[n][2] = "produce"
           /\ last.error = NoError =>
                 /\ last.trace = [n \in blocks |-> <<n, "produce">>]
                 /\ last.result.kind \in {"value", "tuple"}
                 /\ last.result =
                        ReferenceOutput(heap, pipes[last.handle], last.seed)
           /\ last.error # NoError =>
                 /\ last.error = BindingError(last.error.block, "produce")
                 /\ last.trace =
                        [n \in 1..(last.error.block - 1) |-> <<n, "produce">>]

\* A scaler and a classifier were fitted, the scaler was given another
\* value and the pipeline predicted: the scaler is unfitted, the classifier
\* still fitted.
C20_Witness ==
    /\ last.origin.kind = "stale" /\ last.origin.k = 1
    /\ pipes[last.handle].primitives = <<Scaler, Classifier>>
    /\ ~BlockAt(1).instance.fitted
    /\ BlockAt(2).instance.fitted
    /\ last.result.kind = "value"

(***************************************************************************)
(* SpecVars: one pipeline, built with or without remapped names, is fitted *)
(* and used to predict with the name of a variable as output_.             *)
(***************************************************************************)
InitVars ==
    \E primitives \in PrimitiveLists(MaxBlocks) :
      \E remap \in Remaps(primitives) :
        LET new == NewPipeline(EmptyDict, primitives, EmptyDict, remap.input_names,
                               remap.output_names, EmptyDict, EmptyDict)
        IN /\ heap = new.heap
           /\ pipes = [handle \in {"pipeline"} |-> new.pipeline]
           /\ last = NoCall

\* The names of variables a caller passes as output_: the variables passed
\* to the call and the names blocks write their outputs under.
Variables == {StrArg(<<v>>) : v \in {"X", "y", "classes", "Z"}}

NextVars ==
    \/ Fit("pipeline", Seeds, {NoneArg}, {NoneArg})
    \/ Fit("pipeline", OneSeed, {NoneArg}, Variables)
    \/ last.op # "predict" /\ Predict("pipeline", Seeds, {NoneArg}, Variables)

SpecVars == InitVars /\ [][NextVars]_vars

\* The last call asked for a variable by its name alone: output_ is a
\* string without a dot that is the name of no block.
VariableAlone ==
    /\ FromTheFirst
    /\ last.output.type = "str"
    /\ BlockIndex(heap, pipes[last.handle], last.output.value) = 0
    /\ LastDot(last.output.value) = 0

\* C21: an output_ string without a dot that is the name of no block is the
\* name of a variable: the call runs every block through the last one, is
\* not refused for the name matching no block, and returns the value that
\* the context holds under that name after the last block produced.
C21_VariableName ==
    VariableAlone =>
        LET final == Len(pipes[last.handle].blocks)
            variable == last.output.value[1]
        IN /\ last.trace = ThroughBlock(final)
           /\ last.error = NoError
           /\ ~(last.result.kind = "error" /\ last.result.value = "ValueError")
           /\ variable \in DOMAIN ContextAfter(final) =>
                 last.result = [kind |-> "value",
                                value |-> ContextAfter(final)[variable]]

\* A predict of two blocks asked for the variable that the first block
\* writes under a remapped name: both blocks ran, the value is returned.
C21_Witness ==
    /\ VariableAlone /\ last.op = "predict"
    /\ last.output.value = <<"Z">>
    /\ Len(pipes[last.handle].blocks) = 2
    /\ last.trace = <<<<1, "produce">>, <<2, "produce">>>>
    /\ last.result.kind = "value"

(***************************************************************************)
(* SpecReuse: the caller saves the context that a fit with output_=k       *)
(* returns and resumes from it with fit(start_=k+1, **context), more than  *)
(* once, with other hyperparameters in between; last.kwargs is the saved   *)
(* mapping as the caller finds it after a call.                            *)
(***************************************************************************)
InitReuse ==
    \E primitives \in PrimitiveLists(MaxBlocks) :
        LET new == NewPipeline(EmptyDict, primitives, EmptyDict, EmptyDict,
                               EmptyDict, EmptyDict, EmptyDict)
        IN /\ heap = new.heap
           /\ pipes = [handle \in {"pipeline"} |-> new.pipeline]
           /\ last = NoCall

\* pipeline.set_hyperparameters(new) between two fits that resume from the
\* saved context: the caller keeps the mapping and the start_.
Retune(handle) ==
    /\ last.op = "fit" /\ last.origin.kind \in {"resume", "reuse"}
    /\ \E hyperparameters \in NewValues(heap, pipes[handle]) :
          /\ heap' = SetHyperparameters(heap, pipes[handle], hyperparameters)
          /\ last' = [NoCall EXCEPT
                         !.op = "set_hyperparameters", !.handle = handle,
                         !.seed = hyperparameters,
                         !.start = last.start, !.kwargs = last.kwargs,
                         !.origin =
                             [kind |-> "saved",
                              expected |->
                                  IF last.origin.kind = "resume"
                                  THEN [heap |-> EmptyDict,
                                        result |-> [kind |-> "context",
                                                    value |-> last.seed]]
                                  ELSE last.origin.expected,
                              k |-> last.origin.k]]
    /\ UNCHANGED pipes

\* pipeline.fit(start_=k+1, **context) once more, with the mapping the
\* caller saved.
Again(handle) ==
    /\ \/ last.op = "fit" /\ last.origin.kind \in {"resume", "reuse"}
       \/ last.origin.kind = "saved"
    /\ Call(handle, "fit", last.kwargs, last.start, NoneArg)

NextReuse ==
    \/ Fit("pipeline", Seeds, {NoneArg}, {NoneArg} \cup Indexes("pipeline"))
    \/ Fit("pipeline", ReturnedContext, Indexes("pipeline"), {NoneArg})
    \/ Retune("pipeline")
    \/ Again("pipeline")
    \/ Predict("pipeline", Seeds \cup OnlyX, {NoneArg}, {NoneArg})

SpecReuse == InitReuse /\ [][NextReuse]_vars

\* The names the invocations of the last call wrote.
WrittenNames == UNION {DOMAIN last.calls[n].written : n \in DOMAIN last.calls}

InitRange ==
    \E primitives \in PrimitiveLists(MaxRange) :
        LET new == NewPipeline(EmptyDict, primitives, EmptyDict, EmptyDict,
                               EmptyDict, EmptyDict, EmptyDict)
        IN /\ heap = new.heap
           /\ pipes = [handle \in {"pipeline"} |-> new.pipeline]
           /\ last = NoCall

\* The pairs of start_ and output_ a caller passes: each is omitted or the
\* index of a block, the output_ block not before the start_ block.
Ranges(handle) ==
    LET indexes == 0 .. (Len(pipes[handle].blocks) - 1)
    IN {<<NoneArg, NoneArg>>}
          \cup {<<IntArg(k), NoneArg>> : k \in indexes}
          \cup {<<NoneArg, IntArg(j)>> : j \in indexes}
          \cup UNION {{<<IntArg(k), IntArg(j)>> : j \in {i \in indexes : k <= i}} :
                         k \in indexes}

FitRange(handle) ==
    \E seed \in OneSeed, range \in Ranges(handle) :
        Call(handle, "fit", seed, range[1], range[2])

PredictRange(handle) ==
    /\ last.op # "predict"
    /\ \E seed \in OneSeed, range \in Ranges(handle) :
          Call(handle, "predict", seed, range[1], range[2])

NextRange ==
    \/ FitRange("pipeline")
    \/ PredictRange("pipeline")

SpecRange == InitRange /\ [][NextRange]_vars

\* C23: in every call the blocks are invoked in the order of the list: the
\* positions in the trace never go back, a block is fitted before it is
\* produced, no method of a block is invoked twice, and no block before the
\* start_ block or after the output_ block is invoked.
C23_DeclaredOrder ==
    Walked =>
        /\ \A n, m \in DOMAIN last.trace :
              n < m =>
                  /\ last.trace[n][1] <= last.trace[m][1]
                  /\ last.trace[n] # last.trace[m]
                  /\ last.trace[n][1] = last.trace[m][1] =>
                        last.trace[n][2] = "fit" /\ last.trace[m][2] = "produce"
        /\ \A n \in DOMAIN last.trace :
              /\ FirstBlock <= last.trace[n][1]
              /\ last.trace[n][1] <= FinalBlock

\* A fit of the second block alone of three: the encoder and the scaler
\* around it, which read and write other variables, were not invoked.
C23_Witness ==
    /\ Walked /\ last.op = "fit" /\ last.error = NoError
    /\ Len(pipes[last.handle].blocks) = 3
    /\ pipes[last.handle].primitives[1] = Encoder
    /\ pipes[last.handle].primitives[3] = Scaler
    /\ last.start = IntArg(1) /\ last.output = IntArg(1)
    /\ last.trace = <<<<2, "fit">>, <<2, "produce">>>>

\* C28: a fit from the start_ block through the output_ block leaves every
\* block before the start_ block and every block after the output_ block
\* as it was, fitted or not, and fits the blocks of the range, each holding
\* afterwards what its fit learned from the arguments of this call.
C28_RangeFitted ==
    [][(Walked /\ last.op = "fit")' =>
          LET blocks == pipes[last'.handle].blocks
          IN /\ \A k \in DOMAIN blocks :
                   (k < FirstBlock' \/ k > FinalBlock') =>
                       heap'[blocks[k]] = heap[blocks[k]]
             /\ last'.error = NoError =>
                   \A k \in FirstBlock' .. FinalBlock' :
                       \E n \in DOMAIN last'.calls :
                           /\ last'.calls[n].block = k
                           /\ last'.calls[n].phase = "fit"
                           /\ heap'[blocks[k]].instance =
                                 FitInstance(heap[blocks[k]], last'.calls[n].kwargs)]_vars

\* A fit of the second block alone of three blocks that were never fitted:
\* the second block is fitted, the first and the third are not.
C28_Witness ==
    /\ Walked /\ last.op = "fit" /\ last.error = NoError
    /\ Len(pipes[last.handle].blocks) = 3
    /\ last.start = IntArg(1) /\ last.output = IntArg(1)
    /\ BlockAt(2).instance.fitted
    /\ ~BlockAt(1).instance.fitted
    /\ ~BlockAt(3).instance.fitted

(***************************************************************************)
(* SpecLife: one pipeline of class primitives and a function is given      *)
(* other hyperparameters, those passed to the constructor and those passed *)
(* to the fit method, is fitted and is used to predict, in any order.      *)
(***************************************************************************)
LifePrimitives == {Scaler, ImageClassifier, Argmax}

LifeLists == UNION {Tuples(LifePrimitives, n) : n \in 1 .. MaxBlocks}

InitLife ==
    \E primitives \in LifeLists :
        LET new == NewPipeline(EmptyDict, primitives, EmptyDict, EmptyDict,
                               EmptyDict, EmptyDict, EmptyDict)
        IN /\ heap = new.heap
           /\ pipes = [handle \in {"pipeline"} |-> new.pipeline]
           /\ last = NoCall

NextLife ==
    \/ SetPartial("pipeline")
    \/ Reconfigure("pipeline")
    \/ Fit("pipeline", OneSeed, {NoneArg}, {NoneArg})
    \/ last.op # "predict" /\ Predict("pipeline", OneSeed, {NoneArg}, {NoneArg})

SpecLife == InitLife /\ [][NextLife]_vars

\* The hyperparameters of a block that are passed to its constructor and
\* have another value after the step than before it.
Reconstructing(id) ==
    {n \in DOMAIN heap[id].hyperparameters :
        heap'[id].hyperparameters[n] # heap[id].hyperparameters[n]}
            \ MethodParams(heap[id].primitive)

\* The step is a fit that invoked the fit method of the block.
FitInvoked(id) ==
    /\ last'.op = "fit"
    /\ \E n \in DOMAIN last'.calls :
          /\ last'.calls[n].phase = "fit"
          /\ pipes[last'.handle].blocks[last'.calls[n].block] = id

\* C25: the underlying object of a class block changes in two ways only: a
\* fit that invokes its fit method makes it a fitted object, and a
\* set_hyperparameters that changes a value its construction depends on
\* replaces it by a newly constructed one that holds nothing of what was
\* fitted; every such change of value does so.  The block of a function has
\* no fit invoked and never holds anything fitted.
C25_Lifecycle ==
    [][\A id \in DOMAIN heap \cap DOMAIN heap' :
          LET before == heap[id].instance
              after == heap'[id].instance
          IN IF Annotation(heap[id].primitive).kind = "function"
             THEN after = NewInstance /\ ~FitInvoked(id)
             ELSE /\ after # before =>
                        \/ FitInvoked(id) /\ after.fitted
                        \/ /\ last'.op = "set_hyperparameters"
                           /\ Reconstructing(id) # {}
                           /\ after = NewInstance
                  /\ Reconstructing(id) # {} => after = NewInstance
                  /\ FitInvoked(id) => after.fitted
                  /\ ~after.fitted => after = NewInstance]_vars

\* A pipeline of a scaler and a function was fitted and the scaler was then
\* given another value: the scaler holds a new, unfitted object, and the
\* function's block is as it always was.
C25_Witness ==
    /\ last.op = "set_hyperparameters" /\ last.origin.kind = "discarded"
    /\ pipes[last.handle].primitives = <<Scaler, Argmax>>
    /\ last.origin.k = 1
    /\ BlockAt(1).instance = NewInstance
    /\ BlockAt(2).instance = NewInstance

\* C26: a set_hyperparameters that gives a fitted class block only values
\* that are passed to its fit or produce method, or values it already has,
\* leaves the block its underlying object, fitted as it is; the object is
\* replaced by a new one exactly when a value that the constructor takes
\* changes.
C26_KeptUnlessConstruction ==
    [][last'.op = "set_hyperparameters" =>
          \A id \in DOMAIN heap :
              Annotation(heap[id].primitive).kind = "class" =>
                  /\ Reconstructing(id) = {} => heap'[id].instance = heap[id].instance
                  /\ Reconstructing(id) # {} => heap'[id].instance = NewInstance]_vars

\* A fitted image classifier was given another number of epochs, which its
\* fit method takes, and nothing else: it is still fitted.
C26_Witness ==
    /\ last.op = "set_hyperparameters"
    /\ \E k \in DOMAIN pipes[last.handle].blocks :
          /\ BlockAt(k).primitive = ImageClassifier
          /\ Sanitize(last.seed) = [b \in {BlockAt(k).name} |-> [n \in {"epochs"} |-> 5]]
          /\ BlockAt(k).hyperparameters["epochs"] = 5
          /\ BlockAt(k).instance.fitted


(***************************************************************************)
(* SpecCond: one pipeline of scalers and of primitives with a conditional  *)
(* hyperparameter, built with or without a value for the hyperparameter    *)
(* the condition is on, is given other values for the hyperparameters its  *)
(* blocks report as tunable, one block at a time.                          *)
(***************************************************************************)
CondPrimitives == {Scaler, Selector, SelectorDefaulted}

CondLists == UNION {Tuples(CondPrimitives, n) : n \in 1 .. MaxBlocks}

\* The init_params of the scenario: none, or a value of max_features for
\* every block of one primitive.
CondInitParams(primitives) ==
    {EmptyDict} \cup
    {[p \in {primitive} |-> [n \in {"max_features"} |-> v]] :
        primitive \in Range(primitives) \cap {Selector, SelectorDefaulted},
        v \in {Typed("int", 1), Typed("string", "auto")}}

InitCond ==
    \E primitives \in CondLists :
      \E init_params \in CondInitParams(primitives) :
        LET new == NewPipeline(EmptyDict, primitives, init_params, EmptyDict,
                               EmptyDict, EmptyDict, EmptyDict)
        IN /\ heap = new.heap
           /\ pipes = [handle \in {"pipeline"} |-> new.pipeline]
           /\ last = NoCall

\* pipeline.set_hyperparameters({block: {name: value}}) with a value that
\* block.get_tunable_hyperparameters() allows for the name.
SetTunable(handle) ==
    \E id \in Range(pipes[handle].blocks) :
        LET tunable == BlockGetTunableHyperparameters(heap[id])
        IN \E n \in DOMAIN tunable :
             \E v \in tunable[n].values :
                SetHp(handle, [b \in {heap[id].name} |-> [h \in {n} |-> v]], NoOrigin)

\* pipeline.set_hyperparameters(pipeline.get_hyperparameters()) after a
\* set_hyperparameters
SetCurrent(handle) ==
    /\ last.op = "set_hyperparameters"
    /\ last.seed # GetHyperparameters(heap, pipes[handle], FALSE)
    /\ SetHp(handle, GetHyperparameters(heap, pipes[handle], FALSE), NoOrigin)

NextCond ==
    \/ SetTunable("pipeline")
    \/ SetCurrent("pipeline")

SpecCond == InitCond /\ [][NextCond]_vars

TermPrimitives == {TextCleaner, StringVectorizer, Classifier}

TermLists == UNION {Tuples(TermPrimitives, n) : n \in 1 .. MaxBlocks}

Progress(op, handle, seed, start, output, begun, first, at, phase, run) ==
    <<[phase |-> phase, at |-> at],
      [op |-> op, handle |-> handle, seed |-> seed, start |-> start,
       output |-> output, begun |-> begun, first |-> first, run |-> run]>>

\* Where the loop of the call in progress is, and the call in progress.
Position == last[1]
Going == last[2]

\* The call in progress at another place of the loop, with another run.
Moved(phase, at, run) ==
    <<[phase |-> phase, at |-> at], [Going EXCEPT !.run = run]>>

InitTerm ==
    \E primitives \in TermLists :
        LET new == NewPipeline(EmptyDict, primitives, EmptyDict, EmptyDict,
                               EmptyDict, EmptyDict, EmptyDict)
        IN /\ heap = new.heap
           /\ pipes = [handle \in {"pipeline"} |-> new.pipeline]
           /\ last = Progress("init", "pipeline", EmptyDict, NoneArg, NoneArg,
                               new.heap, 1, 0, "over",
                               NewRun(new.heap, EmptyDict, FALSE, <<>>))

\* pipeline.fit or pipeline.predict is called: the outputs asked for and
\* the first block are worked out, and the call is refused when they name
\* no block; otherwise the loop is entered at the first block of the
\* pipeline.
Begin(handle, method, seeds, ranges) ==
    /\ Position.phase = "over"
    /\ \E seed \in seeds, range \in ranges :
          LET start == range[1]
              output == range[2]
              has_outputs == method = "predict" \/ output.type # "none"
              output_variables == OutputVariables(heap, pipes[handle], output)
              first == StartIndex(heap, pipes[handle], start)
              new == NewRun(heap, seed, has_outputs, output_variables)
          IN last' = IF UnknownBlock(first)
                          \/ (has_outputs /\ Invalid \in Range(output_variables))
                      THEN Progress(method, handle, seed, start, output, heap,
                                    first, 0, "over",
                                    [new EXCEPT !.error = Raised("ValueError")])
                      ELSE Progress(method, handle, seed, start, output, heap,
                                    first, 1, "loop", new)
    /\ UNCHANGED <<heap, pipes>>

\* The head of the loop: the loop is left after the last block, a block
\* before the first one to execute is skipped, and any other block is
\* entered.
LoopStep(handle) ==
    /\ Going.handle = handle /\ Position.phase = "loop"
    /\ last' = IF Position.at > Len(pipes[handle].blocks)
                THEN Moved("over", Position.at, Going.run)
                ELSE IF Position.at < Going.first
                     THEN Moved("loop", Position.at + 1, Going.run)
                     ELSE Moved(IF Going.op = "fit" THEN "fit" ELSE "produce",
                                Position.at, Going.run)
    /\ UNCHANGED <<heap, pipes>>

\* The block the loop is at is fitted; an error ends the call.
FitStep(handle) ==
    /\ Going.handle = handle /\ Position.phase = "fit"
    /\ \E fitted \in {FitBlock(Going.run, pipes[handle], Position.at)} :
          /\ last' = Moved(IF fitted.error.type # "None" THEN "over" ELSE "produce",
                            Position.at, fitted)
          /\ heap' = fitted.heap
    /\ UNCHANGED pipes

\* The number of times that a method of block i was called in the run.
TimesCalled(run, i, phase) ==
    Cardinality({n \in DOMAIN run.trace : run.trace[n] = <<i, phase>>})

\* A wrong step: when the produce method of the block raises for the first
\* time, the block is entered again.
ProduceStepRetrying(handle) ==
    /\ Going.handle = handle /\ Position.phase = "produce"
    /\ \E produced \in {ProduceBlock(Going.run, pipes[handle], Position.at)} :
          /\ last' = IF /\ produced.error.type \notin {"None", "TypeError"}
                         /\ TimesCalled(produced, Position.at, "produce") < 2
                      THEN Moved("loop", Position.at,
                                 [produced EXCEPT !.error = NoError])
                      ELSE IF produced.error.type # "None"
                      THEN Moved("over", Position.at, produced)
                      ELSE IF produced.has_outputs /\ produced.pending = {}
                           THEN Moved("over", Position.at,
                                      [produced EXCEPT !.returned = TRUE])
                           ELSE Moved("loop", Position.at + 1, produced)
          /\ heap' = produced.heap
    /\ UNCHANGED pipes

\* The block the loop is at is produced; an error ends the call, and so
\* does the capture of the last output asked for; otherwise the loop goes
\* on to the next block.
ProduceStep(handle) ==
    /\ Going.handle = handle /\ Position.phase = "produce"
    /\ \E produced \in {ProduceBlock(Going.run, pipes[handle], Position.at)} :
          /\ last' = IF produced.error.type # "None"
                      THEN Moved("over", Position.at, produced)
                      ELSE IF produced.has_outputs /\ produced.pending = {}
                           THEN Moved("over", Position.at,
                                      [produced EXCEPT !.returned = TRUE])
                           ELSE Moved("loop", Position.at + 1, produced)
          /\ heap' = produced.heap
    /\ UNCHANGED pipes

\* The start_ and output_ of the scenario: those of Ranges, and a start_
\* that names no block.
TermRanges(handle) ==
    Ranges(handle) \cup {<<StrArg(UnknownName(handle)), NoneArg>>}

\* The data of the scenario: X that the primitives work on and X that they
\* fail on, with y, and X alone.
TermSeeds == {seed \in Seeds : seed["y"] = 0} \cup {seed \in OnlyX : seed["X"] = 1}

NextTerm ==
    \/ Begin("pipeline", "fit", TermSeeds, TermRanges("pipeline"))
    \/ Begin("pipeline", "predict", TermSeeds, TermRanges("pipeline"))
    \/ LoopStep("pipeline")
    \/ FitStep("pipeline")
    \/ ProduceStep("pipeline")

\* A call in progress goes on: the statements of fit and predict are
\* executed one after the other, and every call of a method of a primitive
\* returns or raises.
SpecTerm ==
    /\ InitTerm /\ [][NextTerm]_vars
    /\ WF_Position(LoopStep("pipeline"))
    /\ WF_Position(FitStep("pipeline"))
    /\ WF_Position(ProduceStep("pipeline"))

\* The last block of the range of the call: the last block that an output
\* asked for is taken from, or the last block of the pipeline.
LastOfRange ==
    LET blocks == {v.block : v \in Range(Going.run.output_variables)}
    IN IF Going.run.has_outputs /\ blocks # {}
       THEN CHOOSE b \in blocks : \A c \in blocks : c <= b
       ELSE Len(pipes[Going.handle].blocks)

\* C30: every call in progress comes to its end; in a call, the fit and
\* the produce method of a block are called at most once each, and only
\* those of the blocks from the first block to execute to the last block of
\* the range, fit in a call of fit only; the methods are called in the
\* order of the blocks; the position of the loop never goes back during a
\* call; and the call that came to its end did what fit or predict does
\* taken as one step.
C30_Terminates ==
    /\ (Position.phase # "over") ~> (Position.phase = "over")
    /\ [](/\ \A n \in DOMAIN Going.run.trace :
                 /\ Going.first <= Going.run.trace[n][1]
                 /\ Going.run.trace[n][1] <= LastOfRange
                 /\ Going.run.trace[n][2] = "fit" => Going.op = "fit"
                 /\ TimesCalled(Going.run, Going.run.trace[n][1],
                                 Going.run.trace[n][2]) = 1
                 /\ \A m \in DOMAIN Going.run.trace :
                        m < n => Going.run.trace[m][1] <= Going.run.trace[n][1]
           /\ Position.phase = "over" /\ Going.op # "init" =>
                 LET call == Execute(Going.begun, pipes[Going.handle], Going.op,
                                     Going.seed, Going.start, Going.output)
                 IN Going.run = call.run /\ heap = call.run.heap)
    /\ [][Position.phase # "over" =>
              /\ Position'.at >= Position.at
              /\ Len(Going'.run.trace) >= Len(Going.run.trace)
              /\ Len(Going'.run.trace) <= Len(Going.run.trace) + 1]_vars

\* A fit of a pipeline of two blocks came to its end after the fit and the
\* produce of each block, one call of each; and a predict came to its end
\* at the block whose produce method raised.
C30_Witness ==
    /\ Position.phase = "over"
    /\ \/ /\ Going.op = "fit"
           /\ Going.run.trace = <<<<1, "fit">>, <<1, "produce">>,
                                  <<2, "fit">>, <<2, "produce">>>>
           /\ Going.run.error = NoError
        \/ /\ Going.op = "predict"
           /\ Going.run.error.type = "KeyError"
           /\ Going.run.trace = <<<<1, "produce">>, <<2, "produce">>>>

=============================================================================
